---- MODULE Spec2Model ----
(***************************************************************************)
(* State-machine model of the Satya TEE verification services:             *)
(*   - SealClient (nautilus-server/seal_client.py): quorum decryption      *)
(*   - RealAttestationGenerator (flowTest/real_attestation_generator.py):  *)
(*     signing key life cycle, canonical signing and verification          *)
(*   - MLEvaluator (nautilus-server/ml_evaluator.py): score combination,   *)
(*     bias assessment and whole evaluations                               *)
(*   - tee_server.complete_verification (flowTest/tee_server.py)           *)
(*   - download_from_walrus (nautilus-server/ml_attestation_server.py):    *)
(*     the metadata header of a blob                                       *)
(* Byte strings are sequences of naturals in 0..255.                       *)
(***************************************************************************)
EXTENDS Integers, Sequences, FiniteSets, TLC

VARIABLES
    \* ---- SealClient ----
    configured,     \* TRUE once SealClient.__init__ has run _load_config
    threshold,      \* self.config.threshold
    pc,             \* position of the current decrypt_blob call
    input,          \* encrypted_data, the argument of decrypt_blob
    metadata,       \* result of _extract_seal_metadata
    idx,            \* loop index i of _get_session_keys
    contacted,      \* key servers a request was posted to, in order
    responses,      \* what each key server answered in this run
    session_keys,   \* the list _get_session_keys builds
    performInvoked, \* _perform_decryption was called in this run
    error,          \* exception raised (and swallowed) in _decrypt_with_key_servers
    decrypted,      \* value returned by _decrypt_with_key_servers
    outcome,        \* what the caller of decrypt_blob observes
    prev,           \* input, error and outcome of the previous decrypt_blob call
    \* ---- RealAttestationGenerator: signing key ----
    kpc,             \* per process: position in __init__ / _get_or_create_tee_key
    tee_private_key, \* per process: self.tee_private_key (0: none)
    keyFile,         \* the file tee_signing_key.pem
    keysGenerated,   \* number of Ed25519PrivateKey.generate() calls so far
    persists,        \* number of completed writes of the key file
    \* ---- RealAttestationGenerator: attestation documents ----
    doc,             \* the attestation document in circulation
    orig,            \* the document as it left sign_attestation
    signResult,      \* how the last sign_attestation call ended
    averdict,        \* how the last verify_attestation call on doc ended
    edits,           \* changes made to doc since it was signed
    fresh,           \* processes that started after doc was signed
    \* ---- MLEvaluator ----
    spc,             \* "idle", or "scored" once a quality score was computed
    metrics,         \* dict returned by _evaluate_model_performance
    bias_metrics,    \* dict returned by _assess_bias
    data_integrity,  \* value returned by _assess_data_integrity
    quality_score,   \* value returned by _calculate_overall_quality_score
    \* ---- MLEvaluator._assess_bias ----
    bpc,             \* "idle", or "done" once _assess_bias has returned
    biasIn,          \* the dataset and the model's predictions on it
    biasOut,         \* dict returned by _assess_bias
    biasPredicted,   \* _assess_bias called model.predict
    \* ---- MLEvaluator.evaluate_model_on_dataset ----
    epc,             \* "idle", or "done" once an evaluation has returned
    evalIn,          \* model_blob_data and dataset_blob_data, by content
    evalEnv,         \* what the clock and the process table showed
    evalResult,      \* value returned by evaluate_model_on_dataset
    evalPrev,        \* inputs and result of the evaluation before this one
    \* ---- tee_server.complete_verification ----
    cvpc,            \* "idle", or "done" once a request has been answered
    cvEnv,           \* the request and what the server saw while serving it
    cvResult,        \* the response
    \* ---- ml_attestation_server.download_from_walrus ----
    wpc,             \* "idle", or "extracted" once the header was examined
    blob_data,       \* response.content
    extracted,       \* metadata and encrypted_data
    \* ---- RealAttestationGenerator._compute_system_measurements ----
    mpc,             \* "idle", or "computed" once the dict was built
    measEnv,         \* what the computation found in its environment
    system_measurements, \* self.system_measurements
    measPrev,        \* failure and result of the computation before this one
    \* ---- MLEvaluator: the feature/label split of each sub-step ----
    splpc,           \* "idle", or "split" once the three sub-steps have split
    splitCols,       \* dataset.columns, in order
    splits,           \* the X and y each sub-step worked on
    \* ---- MLEvaluator._evaluate_model_performance ----
    clspc,           \* "idle", or "done" once the metrics were computed
    clsIn,           \* the model, the labels and what the scoring functions gave
    clsMetrics,       \* the metrics dict returned
    \* ---- MLEvaluator.evaluate_model_on_dataset: failing sub-steps ----
    fpc,             \* "idle", or "done" once the sub-steps have run
    stepEnv,         \* the failing statement and the values computed otherwise
    report,           \* the result of the evaluation
    \* ---- MLEvaluator: loading the model and the dataset ----
    ldpc,            \* "idle", or "done" once both loaders have run
    model_blob_data, \* what the deserializers make of the model bytes
    dataset_blob_data, \* what the parsers make of the dataset bytes
    loaded,           \* the loaded objects, the loaders run, and the outcome
    \* ---- RealAttestationGenerator.generate_real_attestation ----
    prpc,            \* "idle", or "done" once a result was generated
    proofEnv,        \* the key, the model's digest and score, the clock readings
    verification_result, \* the result with the signature of sign_ml_result
    \* ---- MLEvaluator._assess_data_integrity ----
    itpc,            \* "idle", or "done" once the scores were computed
    integrityIn,     \* the shape and the counts of the dataset
    scores           \* integrity, fairness and quality score of the report

sealVars == <<configured, threshold, pc, input, metadata, idx, contacted,
              responses, session_keys, performInvoked, error, decrypted,
              outcome, prev>>

keyVars == <<kpc, tee_private_key, keyFile, keysGenerated, persists>>

docVars == <<doc, orig, signResult, averdict, edits, fresh>>

scoreVars == <<spc, metrics, bias_metrics, data_integrity, quality_score>>

biasVars == <<bpc, biasIn, biasOut, biasPredicted>>

evalVars == <<epc, evalIn, evalEnv, evalResult, evalPrev>>

\* the variables of the operations outside the three services above
cvVars == <<cvpc, cvEnv, cvResult>>

walrusVars == <<wpc, blob_data, extracted>>

measVars == <<mpc, measEnv, system_measurements, measPrev>>

extVars == <<biasVars, evalVars, cvVars, walrusVars, measVars>>

\* the variables of the evaluator's sub-steps and loaders, one group per
\* operation, and for each group the variables of the other groups
splitVars == <<splpc, splitCols, splits>>

clsVars == <<clspc, clsIn, clsMetrics>>

faultVars == <<fpc, stepEnv, report>>

loadVars == <<ldpc, model_blob_data, dataset_blob_data, loaded>>

proofVars == <<prpc, proofEnv, verification_result>>

integVars == <<itpc, integrityIn, scores>>

stepVars == <<splitVars, clsVars, faultVars, loadVars, proofVars, integVars>>

splitOthers == <<clsVars, faultVars, loadVars, proofVars, integVars>>

clsOthers == <<splitVars, faultVars, loadVars, proofVars, integVars>>

faultOthers == <<splitVars, clsVars, loadVars, proofVars, integVars>>

loadOthers == <<splitVars, clsVars, faultVars, proofVars, integVars>>

proofOthers == <<splitVars, clsVars, faultVars, loadVars, integVars>>

integOthers == <<splitVars, clsVars, faultVars, loadVars, proofVars>>

vars == <<sealVars, keyVars, docVars, scoreVars, extVars, stepVars>>

(***************************************************************************)
(* Bounds of the model                                                     *)
(***************************************************************************)
MaxThreshold == 3   \* SEAL_THRESHOLD ranges over -1..MaxThreshold
MaxPayload == 3     \* longest payload behind the 64-byte header
NumProcs == 2       \* processes that construct a RealAttestationGenerator
MaxKeys == 3        \* Ed25519 keys that can be generated
MaxTime == 1        \* timestamps 0..MaxTime
MaxEdits == 2       \* changes made to a document after signing

(***************************************************************************)
(* Program constants                                                       *)
(***************************************************************************)
NumKeyServers == 2      \* two KeyServerConfig entries in _load_config
MinEncryptedLen == 32   \* is_seal_encrypted: len(data) < 32
FirstBytesLen == 16     \* is_seal_encrypted: data[:16]
SessionPrefixLen == 32  \* _extract_seal_metadata: encrypted_data[:32]
FakeHeaderLen == 64     \* _perform_decryption: encrypted_data[64:]

KeyServers == 0 .. (NumKeyServers - 1)
Thresholds == (0 - 1) .. MaxThreshold

Min(a, b) == IF a < b THEN a ELSE b

(***************************************************************************)
(* Byte strings                                                            *)
(***************************************************************************)
SEAL == <<83, 69, 65, 76>>          \* b'SEAL'
NULSEAL == <<0, 83, 69, 65, 76>>    \* b'\x00SEAL'
NoBytes == <<>>

\* data[:n]
Prefix(data, n) == SubSeq(data, 1, Min(n, Len(data)))

\* bytes.startswith
StartsWith(data, p) == Len(data) >= Len(p) /\ SubSeq(data, 1, Len(p)) = p

\* A blob of n bytes that begins with header (cut to n) and continues with
\* printable filler.
Blob(header, n) ==
    [i \in 1 .. n |-> IF i <= Len(header) THEN header[i] ELSE 97 + (i % 7)]

BlobLens == {MinEncryptedLen - 1, MinEncryptedLen, FakeHeaderLen,
             FakeHeaderLen + 1, FakeHeaderLen + MaxPayload}

InputBlobs == {Blob(h, n) : h \in {NoBytes, SEAL, NULSEAL}, n \in BlobLens}

\* Optional[bytes]
None == [isNone |-> TRUE, bytes |-> NoBytes]
Some(b) == [isNone |-> FALSE, bytes |-> b]
\* Python truthiness of Optional[bytes]
Truthy(v) == ~v.isNone /\ Len(v.bytes) > 0

(***************************************************************************)
(* SealClient.is_seal_encrypted and _calculate_entropy                     *)
(***************************************************************************)
\* _calculate_entropy: an empty argument returns 0.0; otherwise the loop over
\* frequencies.values() evaluates probability.bit_length() on a float, which
\* raises AttributeError on the first count.
calculate_entropy(data) ==
    IF Len(data) = 0
    THEN [raised |-> FALSE, value |-> 0]
    ELSE [raised |-> TRUE, value |-> 0]

\* bytes.__contains__: pat occurs in data
Contains(data, pat) ==
    \E k \in 1 .. (Len(data) - Len(pat) + 1) :
        SubSeq(data, k, k + Len(pat) - 1) = pat

\* any(pattern in data[:64] for pattern in [b'seal', b'enc', b'key'])
HasSealPattern(data) ==
    \E pat \in {<<115, 101, 97, 108>>, <<101, 110, 99>>, <<107, 101, 121>>} :
        Contains(Prefix(data, FakeHeaderLen), pat)

is_seal_encrypted(data) ==
    IF Len(data) < MinEncryptedLen THEN FALSE
    ELSE LET first_bytes == Prefix(data, FirstBytesLen)
             entropy == calculate_entropy(first_bytes)
         IN IF StartsWith(first_bytes, SEAL) \/ StartsWith(first_bytes, NULSEAL)
            THEN TRUE
            ELSE IF entropy.raised
                 THEN FALSE   \* handler of lines 83-84, then "return False"
                 ELSE entropy.value > 0 /\ HasSealPattern(data)

\* decrypt_blob, lines 113-115: which way the call goes after detection
ProceedAlways(data) == "decrypt"
DetectBranch(data) == IF ~is_seal_encrypted(data) THEN "as_is" ELSE "decrypt"

(***************************************************************************)
(* SealClient._extract_seal_metadata                                       *)
(***************************************************************************)
NoMetadata == [present |-> FALSE, session_id |-> NoBytes, key_shares |-> 0]

\* The digest is kept symbolic: the session id is the hashed prefix itself.
\* fault: the try body raised (the handler of lines 171-173 returns None).
extract_seal_metadata(data, t, fault) ==
    IF fault THEN NoMetadata
    ELSE [present |-> TRUE,
          session_id |-> Prefix(data, SessionPrefixLen),
          key_shares |-> t]

(***************************************************************************)
(* SealClient._get_session_keys: one iteration of the loop                 *)
(***************************************************************************)
\* What a key server can do with the POST:
\*   ok        status 200 and a JSON body
\*   bad_json  status 200, response.json() raises
\*   status    any other status code
\*   timeout   requests raises Timeout after 10 s
\*   refused   requests raises ConnectionError
ResponseKinds == {"ok", "bad_json", "status", "timeout", "refused"}
Raising == {"bad_json", "timeout", "refused"}

KeyEntry(i) == [server_id |-> i, weight |-> 1]

\* a timed-out contact still yields an entry
KeysCountTimeout(keys, i, resp) ==
    IF resp \in {"ok", "timeout"} THEN Append(keys, KeyEntry(i)) ELSE keys

\* session_keys after the iteration for server i
KeysAfterContact(keys, i, resp) ==
    IF resp = "ok" THEN Append(keys, KeyEntry(i)) ELSE keys

\* loop index after the iteration for server i ("continue" in the handler)
AbortOnException(i, resp) == IF resp \in Raising THEN NumKeyServers ELSE i + 1
NextIndex(i, resp) == i + 1

(***************************************************************************)
(* SealClient._decrypt_with_key_servers: the quorum check of line 149      *)
(***************************************************************************)
QuorumStrict(keys, t) == Len(keys) > t
QuorumIgnored(keys, t) == TRUE
QuorumSatisfied(keys, t) == ~(Len(keys) < t)

(***************************************************************************)
(* SealClient._perform_decryption: the mock decryption                     *)
(***************************************************************************)
perform_decryption(data) ==
    IF Len(data) > FakeHeaderLen
    THEN SubSeq(data, FakeHeaderLen + 1, Len(data))
    ELSE data

(***************************************************************************)
(* decrypt_blob: what the caller gets                                      *)
(***************************************************************************)
NoOutcome == [kind |-> "none", bytes |-> NoBytes]
Returned(b) == [kind |-> "return", bytes |-> b]
Raised == [kind |-> "raise", bytes |-> NoBytes]

\* lines 127-137: a truthy result is returned; otherwise "SEAL decryption
\* failed" is raised inside the try and the handler returns encrypted_data
FinishOutcome(data, result) ==
    IF Truthy(result) THEN Returned(result.bytes) ELSE Returned(data)

NoPrev == [input |-> NoBytes, error |-> "none", outcome |-> NoOutcome]

(***************************************************************************)
(* Initial state                                                           *)
(***************************************************************************)
SealInit ==
    /\ configured = FALSE
    /\ threshold = 0
    /\ pc = "idle"
    /\ input = NoBytes
    /\ metadata = NoMetadata
    /\ idx = 0
    /\ contacted = <<>>
    /\ responses = [s \in KeyServers |-> "none"]
    /\ session_keys = <<>>
    /\ performInvoked = FALSE
    /\ error = "none"
    /\ decrypted = None
    /\ outcome = NoOutcome
    /\ prev = NoPrev

(***************************************************************************)
(* SealClient actions                                                      *)
(***************************************************************************)
\* SealClient.__init__ / _load_config: threshold = int(SEAL_THRESHOLD)
LoadConfig ==
    /\ UNCHANGED <<keyVars, docVars, scoreVars, extVars, stepVars>>
    /\ ~configured
    /\ \E t \in Thresholds : threshold' = t
    /\ configured' = TRUE
    /\ UNCHANGED <<pc, input, metadata, idx, contacted, responses,
                   session_keys, performInvoked, error, decrypted, outcome,
                   prev>>

\* decrypt_blob is called: detection, and the pass-through return
DecryptBlob ==
    /\ UNCHANGED <<keyVars, docVars, scoreVars, extVars, stepVars>>
    /\ configured
    /\ pc = "idle"
    /\ \E data \in InputBlobs :
         /\ input' = data
         /\ IF DetectBranch(data) = "as_is"
            THEN /\ outcome' = Returned(data)
                 /\ pc' = "done"
            ELSE /\ outcome' = NoOutcome
                 /\ pc' = "extract"
    /\ UNCHANGED <<configured, threshold, metadata, idx, contacted, responses,
                   session_keys, performInvoked, error, decrypted, prev>>

\* _decrypt_with_key_servers, lines 143-145
ExtractMetadata ==
    /\ UNCHANGED <<keyVars, docVars, scoreVars, extVars, stepVars>>
    /\ pc = "extract"
    /\ \E fault \in BOOLEAN :
         LET m == extract_seal_metadata(input, threshold, fault)
         IN /\ metadata' = m
            /\ IF ~m.present
               THEN /\ error' = "MetadataFailed"
                    /\ pc' = "finish"
               ELSE /\ error' = error
                    /\ pc' = "collect"
    /\ idx' = 0
    /\ decrypted' = None
    /\ UNCHANGED <<configured, threshold, input, contacted, responses,
                   session_keys, performInvoked, outcome, prev>>

\* one iteration of the for loop of _get_session_keys
ContactKeyServer ==
    /\ UNCHANGED <<keyVars, docVars, scoreVars, extVars, stepVars>>
    /\ pc = "collect"
    /\ idx < NumKeyServers
    /\ \E resp \in ResponseKinds :
         /\ contacted' = Append(contacted, idx)
         /\ responses' = [responses EXCEPT ![idx] = resp]
         /\ session_keys' = KeysAfterContact(session_keys, idx, resp)
         /\ idx' = NextIndex(idx, resp)
    /\ UNCHANGED <<configured, threshold, pc, input, metadata, performInvoked,
                   error, decrypted, outcome, prev>>

\* the loop is over: _get_session_keys returns and line 149 checks the quorum
QuorumCheck ==
    /\ UNCHANGED <<keyVars, docVars, scoreVars, extVars, stepVars>>
    /\ pc = "collect"
    /\ idx >= NumKeyServers
    /\ IF QuorumSatisfied(session_keys, threshold)
       THEN /\ pc' = "decrypt"
            /\ error' = error
       ELSE /\ pc' = "finish"
            /\ error' = "InsufficientQuorum"
    /\ UNCHANGED <<configured, threshold, input, metadata, idx, contacted,
                   responses, session_keys, performInvoked, decrypted, outcome,
                   prev>>

\* _perform_decryption, and the return or the handler of lines 156-158.
\* fault: the try body raised and the handler of lines 232-234 re-raised.
PerformDecryption ==
    /\ UNCHANGED <<keyVars, docVars, scoreVars, extVars, stepVars>>
    /\ pc = "decrypt"
    /\ performInvoked' = TRUE
    /\ \E fault \in BOOLEAN :
         IF fault
         THEN /\ error' = "DecryptionMechanicsFailed"
              /\ decrypted' = None
         ELSE /\ error' = error
              /\ decrypted' = Some(perform_decryption(input))
    /\ pc' = "finish"
    /\ UNCHANGED <<configured, threshold, input, metadata, idx, contacted,
                   responses, session_keys, outcome, prev>>

\* decrypt_blob, lines 127-137
FinishDecryptBlob ==
    /\ UNCHANGED <<keyVars, docVars, scoreVars, extVars, stepVars>>
    /\ pc = "finish"
    /\ outcome' = FinishOutcome(input, decrypted)
    /\ pc' = "done"
    /\ UNCHANGED <<configured, threshold, input, metadata, idx, contacted,
                   responses, session_keys, performInvoked, error, decrypted,
                   prev>>

\* the caller has its result; the client is ready for the next call
NextCall ==
    /\ UNCHANGED <<keyVars, docVars, scoreVars, extVars, stepVars>>
    /\ pc = "done"
    /\ prev' = [input |-> input, error |-> error, outcome |-> outcome]
    /\ pc' = "idle"
    /\ input' = NoBytes
    /\ metadata' = NoMetadata
    /\ idx' = 0
    /\ contacted' = <<>>
    /\ responses' = [s \in KeyServers |-> "none"]
    /\ session_keys' = <<>>
    /\ performInvoked' = FALSE
    /\ error' = "none"
    /\ decrypted' = None
    /\ outcome' = NoOutcome
    /\ UNCHANGED <<configured, threshold>>

SealNext ==
    \/ LoadConfig
    \/ DecryptBlob
    \/ ExtractMetadata
    \/ ContactKeyServer
    \/ QuorumCheck
    \/ PerformDecryption
    \/ FinishDecryptBlob
    \/ NextCall

(***************************************************************************)
(* Claims about SealClient                                                 *)
(***************************************************************************)
Responders == {s \in KeyServers : responses[s] = "ok"}

\* _get_session_keys has returned in the current run
CollectionOver ==
    /\ metadata.present
    /\ \/ pc = "collect" /\ idx >= NumKeyServers
       \/ pc \in {"decrypt", "finish", "done"}

EntriesFor(s) == {k \in 1 .. Len(session_keys) : session_keys[k].server_id = s}

\* C1: when the input is judged encrypted and decryption fails (metadata
\* extraction fails, too few key shares, or _perform_decryption raises), the
\* call ends in an error outcome and does not return the input ciphertext.
C1_NoCiphertextOnFailure ==
    (pc = "done" /\ is_seal_encrypted(input) /\ error # "none")
        => (outcome.kind = "raise" /\ outcome # Returned(input))

\* C2: _perform_decryption is invoked if and only if the number of key
\* servers that answered successfully is at least the threshold, whichever
\* servers they are.
C2_QuorumGate ==
    /\ performInvoked => Cardinality(Responders) >= threshold
    /\ (CollectionOver /\ pc \in {"finish", "done"})
          => (performInvoked <=> Cardinality(Responders) >= threshold)

C2_Witness ==
    /\ pc = "done"
    /\ threshold = 2
    /\ performInvoked
    /\ Cardinality(Responders) = 2
    /\ prev.error = "InsufficientQuorum"

\* C3: the outcome the caller observes after too few key shares differs from
\* the outcome it observes, for the same input, after enough shares were
\* collected and _perform_decryption failed.
C3_Distinguishable ==
    (/\ pc = "done"
     /\ prev.input = input
     /\ {error, prev.error} = {"InsufficientQuorum", "DecryptionMechanicsFailed"})
        => outcome # prev.outcome

\* C4: an error, timeout or non-success status of one key server never stops
\* the remaining key servers from being contacted, and the returned list has
\* exactly one entry for each key server that answered successfully and none
\* for the others.
C4_CollectAll ==
    /\ pc = "collect" => Len(contacted) = Min(idx, NumKeyServers)
    /\ CollectionOver =>
          /\ contacted = [i \in 1 .. NumKeyServers |-> i - 1]
          /\ \A s \in KeyServers :
                Cardinality(EntriesFor(s)) = IF responses[s] = "ok" THEN 1 ELSE 0

C4_Witness ==
    /\ CollectionOver
    /\ responses[0] = "timeout"
    /\ responses[1] = "ok"
    /\ Len(session_keys) = 1

\* C5: when is_seal_encrypted is false for the input, decrypt_blob returns
\* exactly the input bytes, contacts no key server and extracts no metadata.
C5_PassThrough ==
    (pc = "done" /\ ~is_seal_encrypted(input))
        => /\ outcome = Returned(input)
           /\ contacted = <<>>
           /\ metadata = NoMetadata
           /\ error = "none"
           /\ ~performInvoked

C5_Witness ==
    /\ pc = "done"
    /\ ~is_seal_encrypted(input)
    /\ Len(input) > FakeHeaderLen
    /\ outcome = Returned(input)

\* C15: key-server contacts are in flight concurrently and the quorum check
\* proceeds as soon as threshold successful responses have arrived: once the
\* quorum is reached no further key server is waited for, and the share set
\* used for decryption is the one that reached the quorum.
C15_EarlyExit ==
    /\ (threshold >= 1 /\ pc = "collect" /\ Len(session_keys) >= threshold)
          => idx >= NumKeyServers
    /\ (threshold >= 1 /\ performInvoked) => Len(session_keys) = threshold

\* a key server that timed out has no entry in session_keys
TimeoutsAreFailures ==
    \A s \in KeyServers : responses[s] = "timeout" => EntriesFor(s) = {}

\* C16: every decryption run terminates, decrypted or failed, even when any
\* subset of the key servers (all of them included) never responds: each
\* contact has a timeout, and a timed-out contact is a failed contact for
\* that key server only.
C16_Terminates ==
    /\ (pc \in {"extract", "collect", "decrypt", "finish"}) ~> (pc = "done")
    /\ [](TimeoutsAreFailures)
    /\ []((pc = "done" /\ metadata.present /\ contacted # <<>>) =>
            /\ Len(contacted) = NumKeyServers
            /\ (error = "none") <=> ~decrypted.isNone)

C16_Witness ==
    /\ pc = "done"
    /\ threshold = 1
    /\ \A s \in KeyServers : responses[s] = "timeout"
    /\ error = "InsufficientQuorum"

\* the steps a decrypt_blob call may take from each position
StepOrder ==
    /\ pc = "idle" => pc' \in {"idle", "extract", "done"}
    /\ pc = "extract" => pc' \in {"collect", "finish"}
    /\ pc = "collect" => pc' \in {"collect", "decrypt", "finish"}
    /\ pc = "decrypt" => pc' = "finish"
    /\ pc = "finish" => pc' = "done"
    /\ pc = "done" => (pc' = "idle" /\ contacted' = <<>> /\ ~performInvoked')

\* C21: a decryption run goes Idle, MetadataExtracted, KeysCollecting, then
\* Satisfied or Unsatisfied, then Decrypted or Failed: no key server is
\* contacted before the metadata is extracted, Decrypted is reached only
\* from Satisfied, Unsatisfied is followed by Failed, and nothing of the run
\* happens after Decrypted or Failed.
C21_StateOrder ==
    /\ [][StepOrder]_vars
    /\ [](contacted # <<>> => metadata.present)
    /\ []((pc \in {"finish", "done"} /\ ~decrypted.isNone)
            => (performInvoked /\ Len(session_keys) >= threshold))
    /\ [](error = "InsufficientQuorum"
            => (decrypted.isNone /\ ~performInvoked
                  /\ Len(session_keys) < threshold))
    /\ []((pc = "done" /\ error # "none") => decrypted.isNone)

C21_Witness ==
    /\ pc = "done"
    /\ performInvoked
    /\ ~decrypted.isNone
    /\ Len(contacted) = NumKeyServers
    /\ prev.error = "InsufficientQuorum"
    /\ threshold = 1

\* C30: whatever integer SEAL_THRESHOLD holds, _perform_decryption is
\* reached only after at least one key server answered successfully:
\* plaintext is never produced from an empty share set.
C30_NonEmptyShares ==
    /\ performInvoked => Len(session_keys) >= 1
    /\ (pc = "done" /\ metadata.present /\ ~decrypted.isNone)
          => Cardinality(Responders) >= 1

(***************************************************************************)
(* RealAttestationGenerator: the signing key                               *)
(***************************************************************************)
Procs == 1 .. NumProcs

NoKeyFile == [state |-> "absent", key |-> 0]
EmptyKeyFile == [state |-> "empty", key |-> 0]    \* opened "wb", not yet written
PemKeyFile(k) == [state |-> "pem", key |-> k]

\* key_file.exists(), line 34
IgnoreKeyFile(f) == FALSE
KeyFileExists(f) == f.state # "absent"

\* serialization.load_pem_private_key(f.read()): a file without a PEM block
\* raises ValueError
LoadPem(f) ==
    IF f.state = "pem" THEN [raised |-> FALSE, key |-> f.key]
    ELSE [raised |-> TRUE, key |-> 0]

\* Ed25519PrivateKey.generate(): a key never seen before
FreshKey(n) == n + 1

\* private_key.public_key()
PublicKeyOf(k) == [public_of |-> k]

(***************************************************************************)
(* RealAttestationGenerator: canonical signing and verification            *)
(***************************************************************************)
\* Field values are JSON strings, kept as a tag and a number.
Str(tag, n) == [tag |-> tag, n |-> n]
EmptyStr == Str("", 0)

\* keys of signing_data in the order json.dumps(sort_keys=True) emits them
SortedKeys == <<"enclave_id", "pcr0", "pcr1", "pcr2", "pcr8", "timestamp">>
CanonFields == {SortedKeys[i] : i \in 1 .. Len(SortedKeys)}
\* fields read with attestation_data[...]; enclave_id is read with .get(.., "")
RequiredFields == CanonFields \ {"enclave_id"}

\* dict.get(key, default)
Get(m, f, default) == IF f \in DOMAIN m THEN m[f] ELSE default

\* sign_attestation, lines 175-182 (called when no required field is missing)
SignSigningData(P) ==
    [f \in CanonFields |->
        IF f = "enclave_id" THEN Get(P, f, EmptyStr) ELSE P[f]]

\* verify_attestation, lines 269-276
SwappedSigningData(P) ==
    [f \in CanonFields |->
        IF f = "enclave_id" THEN Get(P, f, EmptyStr)
        ELSE IF f = "pcr1" THEN P["pcr2"]
        ELSE IF f = "pcr2" THEN P["pcr1"]
        ELSE P[f]]
VerifySigningData(P) ==
    [f \in CanonFields |->
        IF f = "enclave_id" THEN Get(P, f, EmptyStr) ELSE P[f]]

\* json.dumps(signing_data, sort_keys=True).encode(): the key/value pairs in
\* key order
DumpsWithoutTimestamp(sd) ==
    [i \in 1 .. (Len(SortedKeys) - 1) |-> <<SortedKeys[i], sd[SortedKeys[i]]>>]
CanonicalBytes(sd) ==
    [i \in 1 .. Len(SortedKeys) |-> <<SortedKeys[i], sd[SortedKeys[i]]>>]

\* Ed25519: a signature is the pair (signer, message); verification accepts
\* exactly the signatures made with the matching private key over the same
\* message (line 185, line 281)
NoSig == [signer |-> 0, msg |-> <<>>]
Ed25519Sign(k, msg) == [signer |-> k, msg |-> msg]
Ed25519Verify(pub, sig, msg) ==
    /\ sig.signer # 0
    /\ PublicKeyOf(sig.signer) = pub
    /\ sig.msg = msg

\* signature.hex() and the values a document can carry under "signature"
Hex(sig) == [enc |-> "hex", raw |-> sig]
EmptyHex == [enc |-> "hex", raw |-> NoSig]         \* ""
NonHex == [enc |-> "nonhex", raw |-> NoSig]        \* e.g. "zz"
NonStr == [enc |-> "nonstr", raw |-> NoSig]        \* e.g. null, 7
AbsentSig == [enc |-> "absent", raw |-> NoSig]     \* no "signature" key

\* attestation_data.get("signature", "")
GetSignature(d) == IF d.signature.enc = "absent" THEN EmptyHex ELSE d.signature

\* bytes.fromhex
FromHex(v) ==
    IF v.enc = "hex" THEN [exc |-> "none", raw |-> v.raw]
    ELSE IF v.enc = "nonstr" THEN [exc |-> "TypeError", raw |-> NoSig]
    ELSE [exc |-> "ValueError", raw |-> NoSig]

NoDoc == [fields |-> [f \in {} |-> EmptyStr], signature |-> AbsentSig]

\* sign_attestation: KeyError when a required field is missing
sign_attestation(k, P) ==
    IF RequiredFields \ DOMAIN P # {}
    THEN [exc |-> "KeyError", signature |-> AbsentSig]
    ELSE [exc |-> "none",
          signature |-> Hex(Ed25519Sign(k, CanonicalBytes(SignSigningData(P))))]

NoVerdict == [state |-> "none", value |-> FALSE, by |-> 0]
Returns(b) == [state |-> "returned", value |-> b, by |-> 0]
Propagates == [state |-> "raised", value |-> FALSE, by |-> 0]

\* verify_attestation, lines 285-287: "except Exception" returns False
Handler(exc) == Returns(FALSE)

\* verify_attestation with self.tee_public_key = pub
verify_attestation(pub, d) ==
    LET h == FromHex(GetSignature(d))
    IN IF h.exc # "none" THEN Handler(h.exc)
       ELSE IF RequiredFields \ DOMAIN d.fields # {} THEN Handler("KeyError")
       ELSE IF ~Ed25519Verify(pub, h.raw,
                              CanonicalBytes(VerifySigningData(d.fields)))
            THEN Handler("InvalidSignature")
            ELSE Returns(TRUE)

\* self.system_measurements, computed once in __init__
SystemMeasurements ==
    [f \in {"pcr0", "pcr1", "pcr2", "pcr8"} |-> Str(f, 0)]

\* generate_real_enclave_id: "enc_" + digest of host, public key and pid
generate_real_enclave_id(k, p) == Str("enc_", k * (NumProcs + 1) + p)

\* datetime.utcnow().isoformat() + "Z"
Timestamps == {Str("ts", t) : t \in 0 .. MaxTime}

\* values a field of a submitted document may carry
FieldValues(f) ==
    IF f = "enclave_id"
    THEN {EmptyStr} \cup {generate_real_enclave_id(1, p) : p \in Procs}
    ELSE IF f = "timestamp" THEN Timestamps
    ELSE {Str(f, 0), Str(f, 1)}

\* payload maps handed to sign_attestation: the measurements, except pcr0,
\* are those of the system; a field may be missing
PayloadDomains ==
    {CanonFields} \cup {CanonFields \ {f} : f \in CanonFields}
PayloadMaps ==
    {[f \in D |->
        IF f = "pcr0" THEN v0
        ELSE IF f = "timestamp" THEN ts
        ELSE IF f = "enclave_id" THEN e
        ELSE SystemMeasurements[f]] :
     D \in PayloadDomains, v0 \in FieldValues("pcr0"), ts \in Timestamps,
     e \in {EmptyStr, generate_real_enclave_id(1, 1)}}

KeyInit ==
    /\ kpc = [p \in Procs |-> "down"]
    /\ tee_private_key = [p \in Procs |-> 0]
    /\ keyFile = NoKeyFile
    /\ keysGenerated = 0
    /\ persists = 0

\* process 1 has constructed its RealAttestationGenerator
KeyUpInit ==
    /\ kpc = [p \in Procs |-> IF p = 1 THEN "up" ELSE "down"]
    /\ tee_private_key = [p \in Procs |-> IF p = 1 THEN FreshKey(0) ELSE 0]
    /\ keyFile = PemKeyFile(FreshKey(0))
    /\ keysGenerated = 1
    /\ persists = 1

DocInit ==
    /\ doc = NoDoc
    /\ orig = NoDoc
    /\ signResult = "none"
    /\ averdict = NoVerdict
    /\ edits = 0
    /\ fresh = {}

(***************************************************************************)
(* Signing key actions: RealAttestationGenerator.__init__                  *)
(***************************************************************************)
\* a process starts and enters _get_or_create_tee_key
StartProcess(p) ==
    /\ UNCHANGED <<scoreVars, sealVars, docVars, extVars, stepVars>>
    /\ kpc[p] = "down"
    /\ kpc' = [kpc EXCEPT ![p] = "check"]
    /\ UNCHANGED <<tee_private_key, keyFile, keysGenerated, persists>>

\* starts one after the other: no other process is inside __init__
SeqStart(p) ==
    /\ \A q \in Procs \ {p} : kpc[q] \in {"down", "up"}
    /\ StartProcess(p)

\* line 34
CheckKeyFile(p) ==
    /\ UNCHANGED <<scoreVars, sealVars, docVars, extVars, stepVars>>
    /\ kpc[p] = "check"
    /\ kpc' = [kpc EXCEPT ![p] =
                 IF KeyFileExists(keyFile) THEN "load" ELSE "generate"]
    /\ UNCHANGED <<tee_private_key, keyFile, keysGenerated, persists>>

\* lines 36-42; a file that does not parse ends the process with ValueError
LoadKey(p) ==
    /\ UNCHANGED <<scoreVars, sealVars, extVars, stepVars>>
    /\ UNCHANGED <<doc, orig, signResult, averdict, edits>>
    /\ kpc[p] = "load"
    /\ LET r == LoadPem(keyFile)
       IN IF r.raised
          THEN /\ kpc' = [kpc EXCEPT ![p] = "down"]
               /\ UNCHANGED <<tee_private_key, fresh>>
          ELSE /\ kpc' = [kpc EXCEPT ![p] = "up"]
               /\ tee_private_key' = [tee_private_key EXCEPT ![p] = r.key]
               /\ fresh' = fresh \cup {p}
    /\ UNCHANGED <<keyFile, keysGenerated, persists>>

\* line 45
GenerateKey(p) ==
    /\ UNCHANGED <<scoreVars, sealVars, docVars, extVars, stepVars>>
    /\ kpc[p] = "generate"
    /\ keysGenerated < MaxKeys
    /\ tee_private_key' = [tee_private_key EXCEPT ![p] = FreshKey(keysGenerated)]
    /\ keysGenerated' = keysGenerated + 1
    /\ kpc' = [kpc EXCEPT ![p] = "open"]
    /\ UNCHANGED <<keyFile, persists>>

\* line 48: open(key_file, "wb") creates or truncates the file
OpenKeyFile(p) ==
    /\ UNCHANGED <<scoreVars, sealVars, docVars, extVars, stepVars>>
    /\ kpc[p] = "open"
    /\ keyFile' = EmptyKeyFile
    /\ kpc' = [kpc EXCEPT ![p] = "write"]
    /\ UNCHANGED <<tee_private_key, keysGenerated, persists>>

\* lines 49-56: the PEM bytes are written, the file is closed, the key returned
WriteKeyFile(p) ==
    /\ UNCHANGED <<scoreVars, sealVars, extVars, stepVars>>
    /\ UNCHANGED <<doc, orig, signResult, averdict, edits>>
    /\ kpc[p] = "write"
    /\ keyFile' = PemKeyFile(tee_private_key[p])
    /\ persists' = persists + 1
    /\ kpc' = [kpc EXCEPT ![p] = "up"]
    /\ fresh' = fresh \cup {p}
    /\ UNCHANGED <<tee_private_key, keysGenerated>>

\* the process exits; its key object is gone, the file stays
StopProcess(p) ==
    /\ UNCHANGED <<scoreVars, sealVars, docVars, extVars, stepVars>>
    /\ kpc[p] = "up"
    /\ kpc' = [kpc EXCEPT ![p] = "down"]
    /\ tee_private_key' = [tee_private_key EXCEPT ![p] = 0]
    /\ UNCHANGED <<keyFile, keysGenerated, persists>>

(***************************************************************************)
(* Attestation actions                                                     *)
(***************************************************************************)
\* generate_real_attestation, lines 203-220: the attestation document
GenerateRealAttestation(p) ==
    /\ UNCHANGED <<scoreVars, sealVars, keyVars, extVars, stepVars>>
    /\ kpc[p] = "up"
    /\ \E ts \in Timestamps :
         LET k == tee_private_key[p]
             P == [f \in CanonFields |->
                     IF f = "timestamp" THEN ts
                     ELSE IF f = "enclave_id" THEN generate_real_enclave_id(k, p)
                     ELSE SystemMeasurements[f]]
             d == [fields |-> P, signature |-> sign_attestation(k, P).signature]
         IN /\ doc' = d
            /\ orig' = d
    /\ signResult' = "ok"
    /\ averdict' = NoVerdict
    /\ edits' = 0
    /\ fresh' = {}

\* sign_attestation on a payload map of the caller, who stores the proof in
\* the map under "signature"
SignAttestation(p) ==
    /\ UNCHANGED <<scoreVars, sealVars, keyVars, extVars, stepVars>>
    /\ kpc[p] = "up"
    /\ \E P \in PayloadMaps :
         LET r == sign_attestation(tee_private_key[p], P)
         IN IF r.exc # "none"
            THEN /\ signResult' = r.exc
                 /\ doc' = NoDoc
                 /\ orig' = NoDoc
            ELSE /\ signResult' = "ok"
                 /\ doc' = [fields |-> P, signature |-> r.signature]
                 /\ orig' = [fields |-> P, signature |-> r.signature]
    /\ averdict' = NoVerdict
    /\ edits' = 0
    /\ fresh' = {}

\* the holder of the document changes the value of one field
TamperField ==
    /\ UNCHANGED <<scoreVars, sealVars, keyVars, extVars, stepVars>>
    /\ edits < MaxEdits
    /\ \E f \in DOMAIN doc.fields :
         \E v \in FieldValues(f) \ {doc.fields[f]} :
            doc' = [doc EXCEPT !.fields = [doc.fields EXCEPT ![f] = v]]
    /\ edits' = edits + 1
    /\ averdict' = NoVerdict
    /\ UNCHANGED <<orig, signResult, fresh>>

\* the holder of the document removes one field
DropField ==
    /\ UNCHANGED <<scoreVars, sealVars, keyVars, extVars, stepVars>>
    /\ edits < MaxEdits
    /\ \E f \in DOMAIN doc.fields :
         doc' = [doc EXCEPT !.fields =
                    [g \in (DOMAIN doc.fields) \ {f} |-> doc.fields[g]]]
    /\ edits' = edits + 1
    /\ averdict' = NoVerdict
    /\ UNCHANGED <<orig, signResult, fresh>>

\* the holder of the document adds a measurement the generator never makes
ExtraMeasurement == "pcr3"
AddMeasurement ==
    /\ UNCHANGED <<scoreVars, sealVars, keyVars, extVars, stepVars>>
    /\ edits < MaxEdits
    /\ signResult = "ok"
    /\ ExtraMeasurement \notin DOMAIN doc.fields
    /\ doc' = [doc EXCEPT !.fields =
                 [g \in (DOMAIN doc.fields) \cup {ExtraMeasurement} |->
                     IF g = ExtraMeasurement THEN Str(g, 0) ELSE doc.fields[g]]]
    /\ edits' = edits + 1
    /\ averdict' = NoVerdict
    /\ UNCHANGED <<orig, signResult, fresh>>

\* the holder of the document replaces or removes the proof
ReplaceSignature ==
    /\ UNCHANGED <<scoreVars, sealVars, keyVars, extVars, stepVars>>
    /\ edits < MaxEdits
    /\ \E s \in {EmptyHex, NonHex, NonStr, AbsentSig,
                 Hex(Ed25519Sign(MaxKeys + 1, CanonicalBytes(SignSigningData(
                     [f \in CanonFields |-> Get(doc.fields, f, EmptyStr)]))))} :
         /\ s # doc.signature
         /\ doc' = [doc EXCEPT !.signature = s]
    /\ edits' = edits + 1
    /\ averdict' = NoVerdict
    /\ UNCHANGED <<orig, signResult, fresh>>

\* verify_attestation(doc) by process p
VerifyAttestation(p) ==
    /\ UNCHANGED <<scoreVars, sealVars, keyVars, extVars, stepVars>>
    /\ kpc[p] = "up"
    /\ averdict.state = "none"
    /\ averdict' = [verify_attestation(PublicKeyOf(tee_private_key[p]), doc)
                        EXCEPT !.by = p]
    /\ UNCHANGED <<doc, orig, signResult, edits, fresh>>

(***************************************************************************)
(* Claims about RealAttestationGenerator                                   *)
(***************************************************************************)
Verified == averdict.state # "none"
VerifierKey == tee_private_key[averdict.by]
ChangedFields ==
    {f \in (DOMAIN orig.fields) \cap (DOMAIN doc.fields) :
        doc.fields[f] # orig.fields[f]}

\* C6: for a payload map with the six canonical fields, verify_attestation on
\* the map extended with the proof of sign_attestation, under the same
\* signing key, returns true.
C6_RoundTrip ==
    (/\ Verified
     /\ signResult = "ok"
     /\ doc = orig
     /\ CanonFields \subseteq DOMAIN orig.fields
     /\ orig.signature.raw.signer = VerifierKey)
        => averdict.state = "returned" /\ averdict.value

C6_Witness ==
    /\ Verified
    /\ signResult = "ok"
    /\ doc = orig
    /\ CanonFields \subseteq DOMAIN orig.fields
    /\ averdict.value

\* C7: changing the value of exactly one field of a signed payload map before
\* verification makes verify_attestation return false.
C7_TamperEvident ==
    (/\ Verified
     /\ signResult = "ok"
     /\ doc.signature = orig.signature
     /\ DOMAIN doc.fields = DOMAIN orig.fields
     /\ Cardinality(ChangedFields) = 1)
        => averdict.state = "returned" /\ ~averdict.value

C7_Witness ==
    /\ Verified
    /\ signResult = "ok"
    /\ doc.signature = orig.signature
    /\ DOMAIN doc.fields = DOMAIN orig.fields
    /\ ChangedFields = {"timestamp"}
    /\ averdict.state = "returned"
    /\ ~averdict.value

\* the proof of doc is not a signature of the verifier's key over the
\* canonical bytes of doc
ProofMismatch ==
    LET h == FromHex(GetSignature(doc))
    IN \/ h.exc # "none"
       \/ h.raw # Ed25519Sign(VerifierKey, CanonicalBytes(
                      [f \in CanonFields |-> Get(doc.fields, f, EmptyStr)]))

\* C8: verify_attestation never raises and returns false whenever the proof
\* does not match, the proof is not valid hex, or one of the canonical fields
\* (a measurement, the timestamp, the identity id) is missing.
C8_FalseOnAnyDefect ==
    Verified =>
        /\ averdict.state = "returned"
        /\ (ProofMismatch \/ CanonFields \ DOMAIN doc.fields # {})
              => ~averdict.value

\* the measurement names a document carries
MeasurementNames(d) == (DOMAIN d.fields) \ {"timestamp", "enclave_id"}

\* C20: verification succeeds only if the document's measurement names are
\* exactly the fixed set used at generation; a document that lacks one of
\* them or carries an additional one is rejected.
C20_ClosedNames ==
    (Verified /\ averdict.state = "returned" /\ averdict.value)
        => MeasurementNames(doc) = {"pcr0", "pcr1", "pcr2", "pcr8"}

\* C9: over any sequence of process starts a signing key is generated and
\* persisted at most once, every started process holds the key of the first
\* start, which is the key in the file, and a document signed before a
\* restart still verifies.
C9_KeyIdempotent ==
    /\ keysGenerated <= 1
    /\ persists <= 1
    /\ \A p \in Procs :
          kpc[p] = "up" =>
             /\ tee_private_key[p] = FreshKey(0)
             /\ keyFile = PemKeyFile(FreshKey(0))
    /\ (Verified /\ signResult = "ok" /\ doc = orig)
          => averdict.state = "returned" /\ averdict.value

C9_Witness ==
    /\ Verified
    /\ averdict.value
    /\ averdict.by \in fresh
    /\ keysGenerated = 1
    /\ persists = 1

\* C29: when two processes initialise the signing identity concurrently and no
\* key file exists, both end up holding the same key, which is the key left
\* in the file, so what either signed is accepted by a process started later.
C29_ConcurrentInit ==
    /\ (\A p \in Procs : kpc[p] = "up") =>
          /\ \A p, q \in Procs : tee_private_key[p] = tee_private_key[q]
          /\ \A p \in Procs : keyFile = PemKeyFile(tee_private_key[p])
    /\ (Verified /\ signResult = "ok" /\ doc = orig) => averdict.value

(***************************************************************************)
(* MLEvaluator._calculate_overall_quality_score                            *)
(* Scores in [0, 1] are kept in hundredths (0.85 is 85) and weighted sums  *)
(* in tenths, so the arithmetic is exact.                                  *)
(***************************************************************************)
\* accuracy_weight = 0.4, bias_weight = 0.3, integrity_weight = 0.3, in tenths
AccuracyWeight == 4
BiasWeight == 3
IntegrityWeight == 3

\* metrics.get("f1_score", metrics.get("accuracy", 0)), in hundredths
MainAccuracy(m) == Get(m, "f1_score", Get(m, "accuracy", 0))

\* accuracy * 0.4 * 100 + fairness_score * 0.3 + data_integrity * 0.3, in tenths
WeightedTenths(m, b, di) ==
    AccuracyWeight * MainAccuracy(m) + BiasWeight * b.fairness_score
        + IntegrityWeight * di

Max(a, b) == IF a > b THEN a ELSE b

\* int(x) of a non-negative x given in tenths: the fraction is cut off
IntOfTenths(t) == t \div 10

\* max(0, min(100, int(quality_score)))
calculate_overall_quality_score(m, b, di) ==
    Max(0, Min(100, IntOfTenths(WeightedTenths(m, b, di))))

\* the values the sub-steps of an evaluation can hand to the combination
AccuracyValues == {a \in 0 .. 100 : a % 5 = 0}
FairnessValues == {f \in 0 .. 100 : f % 5 = 0}
IntegrityValues == {0, 50, 75, 99, 100}
MetricsDicts ==
    {[k \in {"accuracy", "precision", "recall", "f1_score"} |->
        IF k \in {"accuracy", "f1_score"} THEN a ELSE 0] : a \in AccuracyValues}
    \cup {[k \in {"rmse", "mae", "r2", "accuracy", "f1_score"} |-> a] :
             a \in AccuracyValues}
BiasDicts ==
    {[fairness_score |-> f, bias_detected |-> d] :
        f \in FairnessValues, d \in BOOLEAN}

NoMetrics == [k \in {} |-> 0]

ScoreInit ==
    /\ spc = "idle"
    /\ metrics = NoMetrics
    /\ bias_metrics = [fairness_score |-> 0, bias_detected |-> FALSE]
    /\ data_integrity = 0
    /\ quality_score = 0

\* evaluate_model_on_dataset, line 81: the sub-scores are combined
CalculateOverallQualityScore ==
    /\ UNCHANGED <<sealVars, keyVars, docVars, extVars, stepVars>>
    /\ spc = "idle"
    /\ \E m \in MetricsDicts, b \in BiasDicts, di \in IntegrityValues :
         /\ metrics' = m
         /\ bias_metrics' = b
         /\ data_integrity' = di
         /\ quality_score' = calculate_overall_quality_score(m, b, di)
    /\ spc' = "scored"

\* evaluate_model_on_dataset, lines 85-118: the result is returned and the
\* evaluator is ready for the next evaluation
ReturnResult ==
    /\ UNCHANGED <<sealVars, keyVars, docVars, extVars, stepVars>>
    /\ spc = "scored"
    /\ spc' = "idle"
    /\ metrics' = NoMetrics
    /\ bias_metrics' = [fairness_score |-> 0, bias_detected |-> FALSE]
    /\ data_integrity' = 0
    /\ quality_score' = 0

(***************************************************************************)
(* Claims about MLEvaluator                                                *)
(***************************************************************************)
\* round(x) of a non-negative x given in tenths: to the nearest integer, a
\* tie to the even one
RoundOfTenths(t) ==
    LET fl == t \div 10
        r == t % 10
    IN IF r > 5 \/ (r = 5 /\ fl % 2 = 1) THEN fl + 1 ELSE fl

\* C10: quality_score = clamp(0, 100, round(accuracy_equivalent*100*0.4 +
\* fairness_score*0.3 + integrity_score*0.3)), rounded to the nearest
\* integer; accuracy 0.85, fairness 85 and integrity 100 give 90.
C10_QualityRounded ==
    spc = "scored" =>
        quality_score =
            Max(0, Min(100, RoundOfTenths(
                4 * MainAccuracy(metrics) + 3 * bias_metrics.fairness_score
                    + 3 * data_integrity)))

(***************************************************************************)
(* MLEvaluator._assess_bias                                                *)
(* A dataset is described by its column names and, for the rows whose      *)
(* protected value is 0 and 1, by the number of rows (n0, n1) and the sum  *)
(* of the model's predictions over them (s0, s1).  Rates and gaps are      *)
(* exact fractions.                                                        *)
(***************************************************************************)
MaxGroup == 3    \* largest number of rows of one protected group
MaxLabel == 2    \* largest value model.predict returns for a row

\* line 311: protected_attrs, in the order the loop tries them
ProtectedAttrs == <<"protected_attribute", "gender", "race", "age_group">>
\* lines 322 and 381: "fairness_score": 85
DefaultFairness == 85
\* line 364: bias_threshold = 0.1, as the fraction 1 / BiasThresholdInv
BiasThresholdInv == 10

\* an Optional[int]
NoneInt == [isNone |-> TRUE, v |-> 0]
SomeInt(x) == [isNone |-> FALSE, v |-> x]

\* int(a / b) for b > 0: the fraction is cut off towards zero
TruncDiv(a, b) == IF a >= 0 THEN a \div b ELSE -((-a) \div b)

Abs(x) == IF x < 0 THEN -x ELSE x

\* lines 312-317: the first protected attribute among the columns, "" for None
ProtectedCol(columns) ==
    LET hits == {i \in 1 .. Len(ProtectedAttrs) : ProtectedAttrs[i] \in columns}
    IN IF hits = {} THEN ""
       ELSE ProtectedAttrs[CHOOSE i \in hits : \A j \in hits : i <= j]

\* lines 347-349: demographic_parity_diff = |s1/n1 - s0/n0| as GapNum / GapDen,
\* a group without rows having rate 0
GapDen(g) == Max(g.n0, 1) * Max(g.n1, 1)
GapNum(g) ==
    Abs((IF g.n1 > 0 THEN g.s1 ELSE 0) * Max(g.n0, 1)
          - (IF g.n0 > 0 THEN g.s0 ELSE 0) * Max(g.n1, 1))

\* line 365: demographic_parity_diff > bias_threshold
BiasDetected(g) == BiasThresholdInv * GapNum(g) > GapDen(g)

\* line 368: max(0, int((1 - demographic_parity_diff) * 100))
FairnessScore(g) ==
    Max(0, TruncDiv(100 * (GapDen(g) - GapNum(g)), GapDen(g)))

\* lines 321-327 and 380-386
DefaultBias ==
    [fairness_score |-> DefaultFairness, bias_detected |-> FALSE,
     bias_type |-> "", demographic_parity |-> NoneInt,
     equalized_odds |-> NoneInt]

\* lines 370-376; d.eo is equalized_odds_diff in hundredths
ComputedBias(d) ==
    [fairness_score |-> FairnessScore(d.g),
     bias_detected |-> BiasDetected(d.g),
     bias_type |-> IF BiasDetected(d.g) THEN "demographic" ELSE "",
     demographic_parity |->
         SomeInt(TruncDiv(10000 * (GapDen(d.g) - GapNum(d.g)), GapDen(d.g))),
     equalized_odds |->
         IF d.eo > 0 THEN SomeInt(100 * (100 - d.eo)) ELSE NoneInt]

\* line 319: protected_col is None
NoProtectedCol(d) == ProtectedCol(d.columns) = ""

\* line 344: _assess_bias reaches model.predict
BiasRunsModel(d) == ~NoProtectedCol(d)

\* the assessment runs whatever the columns are
assess_bias_always(d) ==
    IF d.raises THEN DefaultBias ELSE ComputedBias(d)

\* _assess_bias; d.raises: an exception inside the try block of lines 329-376
assess_bias(d) ==
    IF NoProtectedCol(d) THEN DefaultBias
    ELSE IF d.raises THEN DefaultBias
    ELSE ComputedBias(d)

\* the datasets and predictions _assess_bias is applied to
ColumnNames == {"label", "feature_0", "gender", "age_group"}
Groups ==
    {[n0 |-> a, s0 |-> b, n1 |-> c, s1 |-> e] :
        a \in 0 .. MaxGroup, b \in 0 .. MaxGroup * MaxLabel,
        c \in 0 .. MaxGroup, e \in 0 .. MaxGroup * MaxLabel}
GroupCounts == {g \in Groups : g.s0 <= g.n0 * MaxLabel /\ g.s1 <= g.n1 * MaxLabel}
EoGaps == {0, 25}
BiasDatasets ==
    {[columns |-> c, g |-> g, eo |-> eo, raises |-> r] :
        c \in (SUBSET ColumnNames) \ {{}}, g \in GroupCounts,
        eo \in EoGaps, r \in BOOLEAN}

NoDataset ==
    [columns |-> {}, g |-> [n0 |-> 0, s0 |-> 0, n1 |-> 0, s1 |-> 0],
     eo |-> 0, raises |-> FALSE]

BiasInit ==
    /\ bpc = "idle"
    /\ biasIn = NoDataset
    /\ biasOut = DefaultBias
    /\ biasPredicted = FALSE

\* one call of _assess_bias(model_data, dataset)
AssessBias ==
    /\ UNCHANGED <<sealVars, keyVars, docVars, scoreVars, evalVars, cvVars, walrusVars,
                   measVars, stepVars>>
    /\ bpc = "idle"
    /\ \E d \in BiasDatasets :
         /\ biasIn' = d
         /\ biasOut' = assess_bias(d)
         /\ biasPredicted' = BiasRunsModel(d)
    /\ bpc' = "done"

\* the dict is handed to the caller
BiasReturn ==
    /\ UNCHANGED <<sealVars, keyVars, docVars, scoreVars, evalVars, cvVars, walrusVars,
                   measVars, stepVars>>
    /\ bpc = "done"
    /\ bpc' = "idle"
    /\ biasIn' = NoDataset
    /\ biasOut' = DefaultBias
    /\ biasPredicted' = FALSE

\* C11: when a protected-attribute column is present and the assessment
\* completes, fairness_score is max(0, round((1 - parity_gap) * 100)), a
\* nearest integer of (1 - gap) * 100, and bias_detected is true exactly when
\* the gap exceeds 0.1.
C11_FairnessRounded ==
    (bpc = "done" /\ ~NoProtectedCol(biasIn) /\ ~biasIn.raises) =>
        LET D == GapDen(biasIn.g)
            x == 100 * (D - GapNum(biasIn.g))
            f == biasOut.fairness_score
        IN /\ \/ (x <= 0 /\ f = 0)
              \/ (f >= 0 /\ Abs(2 * (D * f - x)) <= D)
           /\ biasOut.bias_detected <=> (10 * GapNum(biasIn.g) > D)

\* C19: a dataset with none of the protected-attribute column names gets
\* bias_detected = false and fairness_score = 85, and the model is not run.
C19_BiasNeutral ==
    (bpc = "done"
       /\ biasIn.columns \cap
            {"protected_attribute", "gender", "race", "age_group"} = {})
        => /\ biasOut.bias_detected = FALSE
           /\ biasOut.fairness_score = 85
           /\ ~biasPredicted

C19_Witness ==
    /\ bpc = "done"
    /\ biasIn.columns = {"label", "feature_0"}
    /\ biasIn.g.n0 = 2 /\ biasIn.g.s0 = 0 /\ biasIn.g.n1 = 2 /\ biasIn.g.s1 = 2
    /\ biasOut.fairness_score = 85
    /\ ~biasPredicted

(***************************************************************************)
(* MLEvaluator.evaluate_model_on_dataset                                   *)
(* The two blobs are described by what loading and predicting make of      *)
(* them: whether they load, the metrics dict, the dataset as _assess_bias  *)
(* sees it and the integrity score.  Times are in hundredths of a          *)
(* millisecond.  The hashes, sizes, type names and evaluation_time_ms,     *)
(* copies of the input or of the clock, are left out of the result.        *)
(***************************************************************************)
\* line 267: n_samples=100
NSamples == 100
\* line 294: max(inference_time, 0.1), in hundredths of a millisecond
InferenceFloor == 10
\* line 297: return 10.0, in hundredths of a millisecond
InferenceDefault == 1000
\* line 303: max(memory_mb, 50)
MemoryFloor == 50

\* _measure_inference_time; env.elapsed is (time.time() - start) * 1000, the
\* milliseconds model.predict(X) took, env.raises that predict raised
measure_inference_time(env) ==
    IF env.raises THEN InferenceDefault
    ELSE Max((env.elapsed * 100) \div NSamples, InferenceFloor)

\* _estimate_memory_usage
estimate_memory_usage(env) == Max(env.memory, MemoryFloor)

\* lines 89-96: int(metrics.get(k, 0) * 10000); an absent or None auc, rmse
\* or mae stays None
AccuracyMetrics(m) ==
    [k \in {"precision", "recall", "f1_score", "auc", "rmse", "mae"} |->
        IF k \in {"auc", "rmse", "mae"} /\ k \notin DOMAIN m THEN NoneInt
        ELSE SomeInt(100 * Get(m, k, 0))]

\* lines 97-103
PerformanceMetrics(env) ==
    [inference_time_ms |-> measure_inference_time(env) \div 100,
     memory_usage_mb |-> estimate_memory_usage(env),
     throughput_samples_per_second |->
         (1000 * 100 * 100) \div Max(measure_inference_time(env), 100)]

NoResult ==
    [isNone |-> TRUE, quality_score |-> 0,
     accuracy_metrics |-> AccuracyMetrics(NoMetrics),
     performance_metrics |->
         [inference_time_ms |-> 0, memory_usage_mb |-> 0,
          throughput_samples_per_second |-> 0],
     data_integrity_score |-> 0, bias_assessment |-> DefaultBias]

\* the quality score also pays for slow inference
evaluate_timed(in, env) ==
    IF in.loads # "ok" THEN NoResult
    ELSE [isNone |-> FALSE,
          quality_score |->
              Max(0, calculate_overall_quality_score(
                         in.metrics, assess_bias(in.dataset), in.di)
                       - measure_inference_time(env) \div 100),
          accuracy_metrics |-> AccuracyMetrics(in.metrics),
          performance_metrics |-> PerformanceMetrics(env),
          data_integrity_score |-> in.di,
          bias_assessment |-> assess_bias(in.dataset)]

\* evaluate_model_on_dataset: None when a blob does not load (lines 59-65,
\* 120-123), the result dict of lines 85-115 otherwise
evaluate_model_on_dataset(in, env) ==
    IF in.loads # "ok" THEN NoResult
    ELSE [isNone |-> FALSE,
          quality_score |->
              calculate_overall_quality_score(
                  in.metrics, assess_bias(in.dataset), in.di),
          accuracy_metrics |-> AccuracyMetrics(in.metrics),
          performance_metrics |-> PerformanceMetrics(env),
          data_integrity_score |-> in.di,
          bias_assessment |-> assess_bias(in.dataset)]

\* the inputs of an evaluation
EvalMetrics ==
    {m \in MetricsDicts : MainAccuracy(m) \in {0, 85}}
    \cup {[k \in {"accuracy", "precision", "recall", "f1_score", "auc"} |-> 90]}
EvalDatasets ==
    {d \in BiasDatasets :
        /\ d.columns \in {{"label", "feature_0"}, {"label", "gender"}}
        /\ d.g.n0 = 2 /\ d.g.n1 = 2 /\ d.g.s0 = 1 /\ d.g.s1 \in {0, 1, 2}
        /\ d.eo = 0
        /\ ~d.raises}
EvalIntegrity == {75, 100}
EvalInputs ==
    {[loads |-> l, metrics |-> NoMetrics, dataset |-> NoDataset, di |-> 0] :
        l \in {"no_model", "no_dataset"}}
    \cup {[loads |-> "ok", metrics |-> m, dataset |-> d, di |-> di] :
            m \in EvalMetrics, d \in EvalDatasets, di \in EvalIntegrity}
\* what the clock and the process table can show, in milliseconds and MB
ElapsedValues == {-10, 0, 50, 100, 250}
EvalEnvs ==
    {[raises |-> FALSE, elapsed |-> e, memory |-> mem] :
        e \in ElapsedValues, mem \in {20, 300}}
    \cup {[raises |-> TRUE, elapsed |-> 0, memory |-> mem] : mem \in {20, 300}}

NoEvalInput ==
    [loads |-> "none", metrics |-> NoMetrics, dataset |-> NoDataset, di |-> 0]
NoEnv == [raises |-> FALSE, elapsed |-> 0, memory |-> 0]
NoEvalPrev ==
    [valid |-> FALSE, in |-> NoEvalInput, isNone |-> TRUE, quality_score |-> 0,
     accuracy_metrics |-> AccuracyMetrics(NoMetrics),
     bias_assessment |-> DefaultBias, inference_time_ms |-> 0]

EvalInit ==
    /\ epc = "idle"
    /\ evalIn = NoEvalInput
    /\ evalEnv = NoEnv
    /\ evalResult = NoResult
    /\ evalPrev = NoEvalPrev

\* one call of evaluate_model_on_dataset(model_blob_data, dataset_blob_data)
EvaluateModelOnDataset ==
    /\ UNCHANGED <<sealVars, keyVars, docVars, scoreVars, biasVars, cvVars, walrusVars,
                   measVars, stepVars>>
    /\ epc = "idle"
    /\ \E in \in EvalInputs, env \in EvalEnvs :
         /\ evalIn' = in
         /\ evalEnv' = env
         /\ evalResult' = evaluate_model_on_dataset(in, env)
    /\ epc' = "done"
    /\ UNCHANGED evalPrev

\* the caller has the result; the evaluator object keeps nothing of the call
EvalReturn ==
    /\ UNCHANGED <<sealVars, keyVars, docVars, scoreVars, biasVars, cvVars, walrusVars,
                   measVars, stepVars>>
    /\ epc = "done"
    /\ epc' = "idle"
    /\ evalPrev' =
         [valid |-> TRUE, in |-> evalIn, isNone |-> evalResult.isNone,
          quality_score |-> evalResult.quality_score,
          accuracy_metrics |-> evalResult.accuracy_metrics,
          bias_assessment |-> evalResult.bias_assessment,
          inference_time_ms |->
              evalResult.performance_metrics.inference_time_ms]
    /\ evalIn' = NoEvalInput
    /\ evalEnv' = NoEnv
    /\ evalResult' = NoResult

C18_LatencyPositive ==
    (epc = "done" /\ ~evalResult.isNone) =>
        evalResult.performance_metrics.inference_time_ms > 0

(***************************************************************************)
(* tee_server.complete_verification and generate_real_attestation          *)
(* A request is described by its shape and by what the file system and the *)
(* module state show while it is served.  Digests and scores are kept by   *)
(* what they were computed from.                                           *)
(***************************************************************************)
\* the key of the module-level real_attestation_generator (tee_server.py:39)
ServerKey == FreshKey(0)

\* tee_server.py lines 87-92, as the fields of a simulated attestation
ExpectedPcrs == [f \in {"pcr0", "pcr1", "pcr2", "pcr8"} |-> Str("expected", 0)]

\* compute_real_model_hash: the digest of the file, or on any exception the
\* digest of the text "error-<path>"
compute_real_model_hash(readable) ==
    IF readable THEN "sha256_of_model_bytes" ELSE "sha256_of_error_text"

\* compute_real_quality_score: a score from the unpickled model, or on any
\* exception a score from the file size
compute_real_quality_score(loadable) ==
    IF loadable THEN "from_model" ELSE "from_file_size"

\* generate_real_attestation(model_path, model_result), lines 196-247
generate_real_attestation(env) ==
    LET P == [f \in CanonFields |->
                IF f = "timestamp" THEN env.ts
                ELSE IF f = "enclave_id"
                     THEN generate_real_enclave_id(ServerKey, 1)
                ELSE SystemMeasurements[f]]
    IN [status |-> "returned",
        source |-> "real_tee_attestation",
        model_hash |-> compute_real_model_hash(env.readable),
        quality_score |-> compute_real_quality_score(env.loadable),
        tee_attestation |->
            [fields |-> P, signature |-> sign_attestation(ServerKey, P).signature],
        assessment_type |-> env.assessment_type]

\* complete_verification, lines 356-396: the simulated result
SimulatedVerification(env) ==
    [status |-> "returned",
     source |-> "simulation_fallback",
     model_hash |-> "sha256_random_token",
     quality_score |-> "constant_0.9814",
     tee_attestation |->
         [fields |-> [f \in {"pcr0", "pcr1", "pcr2", "pcr8", "timestamp"} |->
                        IF f = "timestamp" THEN env.ts ELSE ExpectedPcrs[f]],
          signature |-> NonHex],
     assessment_type |-> env.assessment_type]

\* complete_verification, lines 398-400: HTTPException(status_code=500)
Http500 ==
    [status |-> "http500", source |-> "", model_hash |-> "",
     quality_score |-> "", tee_attestation |-> NoDoc, assessment_type |-> ""]

NoResponse == [Http500 EXCEPT !.status = "none"]

\* complete_verification(request); env.shape = "bad" is a request whose
\* model_result is not a JSON object, so that model_result.get raises
complete_verification(env) ==
    IF env.shape = "bad" THEN Http500
    ELSE IF env.generator /\ env.model_path THEN generate_real_attestation(env)
    ELSE SimulatedVerification(env)

\* what a request and the server's surroundings can look like
VerificationEnvs ==
    {[shape |-> s, generator |-> gen, model_path |-> mp, readable |-> rd,
      loadable |-> ld, ts |-> ts, assessment_type |-> at] :
        s \in {"ok", "bad"}, gen \in BOOLEAN, mp \in BOOLEAN, rd \in BOOLEAN,
        ld \in BOOLEAN, ts \in Timestamps,
        at \in {"quality_analysis", "bias_audit"}}

NoVerificationEnv ==
    [shape |-> "none", generator |-> FALSE, model_path |-> FALSE,
     readable |-> FALSE, loadable |-> FALSE, ts |-> Str("ts", 0),
     assessment_type |-> ""]

VerifyInit ==
    /\ cvpc = "idle"
    /\ cvEnv = NoVerificationEnv
    /\ cvResult = NoResponse

\* POST /complete_verification
CompleteVerification ==
    /\ UNCHANGED <<sealVars, keyVars, docVars, scoreVars, biasVars, evalVars, walrusVars,
                   measVars, stepVars>>
    /\ cvpc = "idle"
    /\ \E env \in VerificationEnvs :
         /\ cvEnv' = env
         /\ cvResult' = complete_verification(env)
    /\ cvpc' = "done"

\* the response has been sent
VerificationResponse ==
    /\ UNCHANGED <<sealVars, keyVars, docVars, scoreVars, biasVars, evalVars, walrusVars,
                   measVars, stepVars>>
    /\ cvpc = "done"
    /\ cvpc' = "idle"
    /\ cvEnv' = NoVerificationEnv
    /\ cvResult' = NoResponse

\* C13: a verification request either ends in an error or returns a result
\* whose model_hash is the digest of the model bytes, whose quality score was
\* computed from the model and whose attestation proof verifies.
C13_AllOrNothing ==
    (cvpc = "done" /\ cvResult.status = "returned") =>
        /\ cvResult.model_hash = "sha256_of_model_bytes"
        /\ cvResult.quality_score = "from_model"
        /\ verify_attestation(PublicKeyOf(ServerKey),
                              cvResult.tee_attestation).value

(***************************************************************************)
(* ml_attestation_server.download_from_walrus, lines 261-292: the metadata *)
(* header of a downloaded blob                                             *)
(***************************************************************************)
MaxBody == 3     \* largest number of bytes after the 4-byte length prefix

\* lines 263 and 269: the length prefix has 4 bytes
PrefixLen == 4

\* int.from_bytes(b, byteorder='little')
FromBytesLittle(b) ==
    LET RECURSIVE val(_)
        val(i) == IF i > Len(b) THEN 0 ELSE b[i] + 256 * val(i + 1)
    IN val(1)

\* blob_data[lo:hi] for 0 <= lo
Slice(b, lo, hi) ==
    LET h == Min(hi, Len(b))
    IN IF lo >= h THEN NoBytes ELSE SubSeq(b, lo + 1, h)

\* the bytes "{", "}" and "7"
LBrace == 123
RBrace == 125
Digit7 == 55

\* metadata_bytes.decode('utf-8') and json.loads, on the byte strings the
\* model builds: "{}" is an object, a run of digits a number, the rest raises
JsonLoads(b) ==
    IF b = <<LBrace, RBrace>> THEN "object"
    ELSE IF Len(b) > 0 /\ \A i \in 1 .. Len(b) : b[i] = Digit7 THEN "number"
    ELSE "raises"

\* line 272: metadata_length > 0 and metadata_length < len(blob_data) - 4
SanityCheck(metadata_length, n) ==
    metadata_length > 0 /\ metadata_length < n - PrefixLen

\* lines 263-292: metadata and encrypted_data; metadata.get in the print of
\* line 282 raises for a JSON value that is not an object, inside the try
extract_metadata(blob) ==
    LET raw == [metadata |-> None, encrypted_data |-> blob]
    IN IF Len(blob) < PrefixLen THEN raw
       ELSE LET metadata_length == FromBytesLittle(Slice(blob, 0, PrefixLen))
                metadata_bytes == Slice(blob, PrefixLen,
                                        PrefixLen + metadata_length)
            IN IF ~SanityCheck(metadata_length, Len(blob)) THEN raw
               ELSE IF JsonLoads(metadata_bytes) # "object" THEN raw
               ELSE [metadata |-> Some(metadata_bytes),
                     encrypted_data |->
                         Slice(blob, PrefixLen + metadata_length, Len(blob))]

\* the blobs that reach line 263 (an empty download was refused at line 257)
SeqsUpTo(S, n) == UNION {[1 .. k -> S] : k \in 0 .. n}
LengthPrefixes ==
    {<<b0, b1, 0, b3>> : b0 \in 0 .. MaxBody + 1, b1 \in {0, 1}, b3 \in {0, 1}}
WalrusBlobs ==
    (SeqsUpTo({0, 2, LBrace}, PrefixLen - 1) \ {NoBytes})
    \cup {p \o body : p \in LengthPrefixes,
                     body \in SeqsUpTo({LBrace, RBrace, Digit7}, MaxBody)}

NoExtraction == [metadata |-> None, encrypted_data |-> NoBytes]

ExtractInit ==
    /\ wpc = "idle"
    /\ blob_data = NoBytes
    /\ extracted = NoExtraction

\* lines 255-292 for one downloaded blob
ExtractMetadataHeader ==
    /\ UNCHANGED <<sealVars, keyVars, docVars, scoreVars, biasVars, evalVars,
                   cvVars, measVars, stepVars>>
    /\ wpc = "idle"
    /\ \E b \in WalrusBlobs :
         /\ blob_data' = b
         /\ extracted' = extract_metadata(b)
    /\ wpc' = "extracted"

\* lines 294-312: the parts go on to decryption
HandOver ==
    /\ UNCHANGED <<sealVars, keyVars, docVars, scoreVars, biasVars, evalVars,
                   cvVars, measVars, stepVars>>
    /\ wpc = "extracted"
    /\ wpc' = "idle"
    /\ blob_data' = NoBytes
    /\ extracted' = NoExtraction

DeclaredLength == FromBytesLittle(Slice(blob_data, 0, PrefixLen))
Remaining == Len(blob_data) - 4

\* C14: with a 4-byte prefix declaring L, the metadata is bytes [4, 4+L) and
\* the ciphertext the rest exactly when L is non-zero, not larger than the
\* number of bytes after the prefix, and the bytes parse as a JSON object;
\* otherwise the whole blob is the ciphertext and there is no metadata.  (A
\* JSON value that parses but is not an object is left open.)
C14_ExtractMetadata ==
    wpc = "extracted" =>
        IF /\ Len(blob_data) >= 4
           /\ DeclaredLength # 0
           /\ DeclaredLength <= Remaining
           /\ JsonLoads(Slice(blob_data, 4, 4 + DeclaredLength)) # "raises"
        THEN JsonLoads(Slice(blob_data, 4, 4 + DeclaredLength)) = "object"
                => /\ extracted.metadata =
                         Some(Slice(blob_data, 4, 4 + DeclaredLength))
                   /\ extracted.encrypted_data =
                         Slice(blob_data, 4 + DeclaredLength, Len(blob_data))
        ELSE /\ extracted.metadata = None
             /\ extracted.encrypted_data = blob_data

(***************************************************************************)
(* RealAttestationGenerator._compute_system_measurements                   *)
(* The environment of a computation is the measurement whose inputs cannot *)
(* be read ("none": all can), the clock and the process id.                *)
(***************************************************************************)
\* lines 90-95: what each fallback value is derived from
FallbackValue(f, env) ==
    IF f = "pcr0" THEN Str("fallback-node", 0)
    ELSE IF f = "pcr1" THEN Str("fallback-time", env.now)
    ELSE IF f = "pcr2" THEN Str("fallback-pid", env.pid)
    ELSE Str("fallback-now", env.now)

\* _compute_system_measurements: one try block around the four measurements;
\* any exception replaces the whole dict by the four fallback values
compute_system_measurements(env) ==
    IF env.fails = "none" THEN SystemMeasurements
    ELSE [f \in DOMAIN SystemMeasurements |-> FallbackValue(f, env)]

\* environments: the same host and files, the clock and pid of the moment
MeasureEnvs ==
    {[fails |-> x, now |-> t, pid |-> p] :
        x \in {"none", "pcr0", "pcr1", "pcr2", "pcr8"},
        t \in 0 .. MaxTime + 1, p \in 1 .. NumProcs + 1}

NoMeasureEnv == [fails |-> "none", now |-> 0, pid |-> 0]
NoMeasurements == [f \in DOMAIN SystemMeasurements |-> EmptyStr]
NoMeasurePrev == [valid |-> FALSE, fails |-> "none", set |-> NoMeasurements]

MeasureInit ==
    /\ mpc = "idle"
    /\ measEnv = NoMeasureEnv
    /\ system_measurements = NoMeasurements
    /\ measPrev = NoMeasurePrev

\* __init__, line 28: self.system_measurements is computed
ComputeSystemMeasurements ==
    /\ UNCHANGED <<sealVars, keyVars, docVars, scoreVars, biasVars, evalVars,
                   cvVars, walrusVars, stepVars>>
    /\ mpc = "idle"
    /\ \E env \in MeasureEnvs :
         /\ measEnv' = env
         /\ system_measurements' = compute_system_measurements(env)
    /\ mpc' = "computed"
    /\ UNCHANGED measPrev

\* the process ends; the next one computes its measurements anew
Restart ==
    /\ UNCHANGED <<sealVars, keyVars, docVars, scoreVars, biasVars, evalVars,
                   cvVars, walrusVars, stepVars>>
    /\ mpc = "computed"
    /\ mpc' = "idle"
    /\ measPrev' = [valid |-> TRUE, fails |-> measEnv.fails,
                    set |-> system_measurements]
    /\ measEnv' = NoMeasureEnv
    /\ system_measurements' = NoMeasurements

\* C17: when one measurement cannot be computed the set is still complete,
\* only that measurement is a placeholder, the others keep their computed
\* values, and two computations with the same failure yield the same set.
C17_FailSoft ==
    mpc = "computed" =>
        /\ DOMAIN system_measurements = {"pcr0", "pcr1", "pcr2", "pcr8"}
        /\ \A f \in DOMAIN system_measurements :
              f # measEnv.fails => system_measurements[f] = Str(f, 0)
        /\ (measPrev.valid /\ measPrev.fails = measEnv.fails)
              => system_measurements = measPrev.set

(***************************************************************************)
(* MLEvaluator: the feature/label split of the scoring sub-steps           *)
(* (nautilus-server/ml_evaluator.py lines 205-215, 272-278, 329-338)       *)
(* A dataset is its column names in order; a split is the set of columns   *)
(* handed to the model as X and the column taken as y.                     *)
(***************************************************************************)
MaxCols == 3     \* most columns of a dataset

ColRange(cols) == {cols[i] : i \in 1 .. Len(cols)}

\* lines 206-215: 'label', else 'target', else the last column
LabelColumn(cols) ==
    IF "label" \in ColRange(cols) THEN "label"
    ELSE IF "target" \in ColRange(cols) THEN "target"
    ELSE cols[Len(cols)]

\* _evaluate_model_performance, lines 206-215
PerformanceSplit(cols) ==
    IF "label" \in ColRange(cols)
    THEN [ran |-> TRUE, X |-> ColRange(cols) \ {"label"}, y |-> "label"]
    ELSE IF "target" \in ColRange(cols)
    THEN [ran |-> TRUE, X |-> ColRange(cols) \ {"target"}, y |-> "target"]
    ELSE [ran |-> TRUE, X |-> {cols[i] : i \in 1 .. (Len(cols) - 1)},
          y |-> cols[Len(cols)]]

\* _measure_inference_time, lines 273-278: only X is built; y names the column
\* left out of it
TimingSplit(cols) ==
    IF "label" \in ColRange(cols)
    THEN [ran |-> TRUE, X |-> ColRange(cols) \ {"label"}, y |-> "label"]
    ELSE IF "target" \in ColRange(cols)
    THEN [ran |-> TRUE, X |-> ColRange(cols) \ {"target"}, y |-> "target"]
    ELSE [ran |-> TRUE, X |-> {cols[i] : i \in 1 .. (Len(cols) - 1)},
          y |-> cols[Len(cols)]]

NoSplit == [ran |-> FALSE, X |-> {}, y |-> ""]

\* _assess_bias, lines 319-336: without a protected column nothing is split;
\* with one, 'label' is looked for and 'target' is not, and when 'label' is
\* absent only the protected column is dropped from X
BiasSplit(cols) ==
    LET protected_col == ProtectedCol(ColRange(cols))
    IN IF protected_col = "" THEN NoSplit
       ELSE IF "label" \in ColRange(cols)
       THEN [ran |-> TRUE, X |-> ColRange(cols) \ {"label", protected_col},
             y |-> "label"]
       ELSE [ran |-> TRUE, X |-> ColRange(cols) \ {protected_col},
             y |-> cols[Len(cols)]]

SplitColumnNames == {"label", "target", "gender", "age_group", "f0", "f1"}

\* datasets with one to MaxCols distinct columns
SplitDatasets ==
    {c \in UNION {[1 .. n -> SplitColumnNames] : n \in 1 .. MaxCols} :
        \A i, j \in 1 .. Len(c) : i # j => c[i] # c[j]}

NoSplits == [performance |-> NoSplit, timing |-> NoSplit, bias |-> NoSplit]

SplitInit ==
    /\ splpc = "idle"
    /\ splitCols = <<>>
    /\ splits = NoSplits

\* evaluate_model_on_dataset lines 68-78: the three sub-steps split one dataset
SplitDataset ==
    /\ UNCHANGED <<sealVars, keyVars, docVars, scoreVars, extVars, splitOthers>>
    /\ splpc = "idle"
    /\ \E c \in SplitDatasets :
          /\ splitCols' = c
          /\ splits' = [performance |-> PerformanceSplit(c),
                        timing |-> TimingSplit(c),
                        bias |-> BiasSplit(c)]
    /\ splpc' = "split"

\* the report is returned and the evaluator is ready for the next dataset
SplitReturn ==
    /\ UNCHANGED <<sealVars, keyVars, docVars, scoreVars, extVars, splitOthers>>
    /\ splpc = "split"
    /\ splpc' = "idle"
    /\ splitCols' = <<>>
    /\ splits' = NoSplits

\* C22: accuracy evaluation, inference timing and bias assessment each take
\* the label from 'label', else 'target', else the last column, and none of
\* them passes that label column to the model as a feature.
C22_SameSplit ==
    splpc = "split" =>
        \A s \in {"performance", "timing", "bias"} :
            splits[s].ran =>
                /\ splits[s].y = LabelColumn(splitCols)
                /\ LabelColumn(splitCols) \notin splits[s].X

(***************************************************************************)
(* MLEvaluator._evaluate_model_performance: the choice of metrics          *)
(* (nautilus-server/ml_evaluator.py lines 221-265)                         *)
(* Scores are in tenths.  A metrics dict is kept as its key set and its    *)
(* "accuracy" entry.                                                       *)
(***************************************************************************)
MaxDistinct == 11   \* most distinct values of the label column
MaxAcc == 2         \* accuracy_score and |r2| range over 0..MaxAcc tenths

\* line 229: len(np.unique(y)) <= 10
ClassificationMaxLabels == 10

\* line 229: hasattr(model, "predict_proba") or len(np.unique(y)) <= 10
UsesClassification(in) ==
    in.has_predict_proba \/ in.distinct <= ClassificationMaxLabels

\* lines 222-265
evaluate_model_performance(in) ==
    IF in.raises
    THEN [keys |-> {"accuracy", "precision", "recall", "f1_score"},
          accuracy |-> 0]
    ELSE IF UsesClassification(in)
    THEN [keys |-> {"accuracy", "precision", "recall", "f1_score"}
                     \cup (IF in.distinct = 2 THEN {"auc"} ELSE {}),
          accuracy |-> in.acc]
    ELSE [keys |-> {"rmse", "mae", "r2", "accuracy", "f1_score"},
          accuracy |-> Max(0, in.r2)]

PerformanceInputs ==
    [has_predict_proba : BOOLEAN, distinct : 1 .. MaxDistinct,
     raises : BOOLEAN, acc : 0 .. MaxAcc, r2 : (0 - MaxAcc) .. MaxAcc]

NoPerformanceInput ==
    [has_predict_proba |-> FALSE, distinct |-> 1, raises |-> FALSE,
     acc |-> 0, r2 |-> 0]

NoPerformance == [keys |-> {}, accuracy |-> 0]

PerformanceInit ==
    /\ clspc = "idle"
    /\ clsIn = NoPerformanceInput
    /\ clsMetrics = NoPerformance

\* one call of _evaluate_model_performance
EvaluateModelPerformance ==
    /\ UNCHANGED <<sealVars, keyVars, docVars, scoreVars, extVars, clsOthers>>
    /\ clspc = "idle"
    /\ \E in \in PerformanceInputs :
          /\ clsIn' = in
          /\ clsMetrics' = evaluate_model_performance(in)
    /\ clspc' = "done"

\* the metrics are handed to the caller
PerformanceReturn ==
    /\ UNCHANGED <<sealVars, keyVars, docVars, scoreVars, extVars, clsOthers>>
    /\ clspc = "done"
    /\ clspc' = "idle"
    /\ clsIn' = NoPerformanceInput
    /\ clsMetrics' = NoPerformance

\* C23: an evaluation that did not fail reports classification metrics if and
\* only if the label column has at most 10 distinct values, and regression
\* metrics with max(0, r2) as accuracy otherwise, whatever the model offers.
C23_LabelCardinality ==
    (clspc = "done" /\ ~clsIn.raises) =>
        /\ "precision" \in clsMetrics.keys <=> clsIn.distinct <= 10
        /\ "rmse" \in clsMetrics.keys <=> clsIn.distinct > 10
        /\ clsIn.distinct > 10 => clsMetrics.accuracy = Max(0, clsIn.r2)

(***************************************************************************)
(* MLEvaluator.evaluate_model_on_dataset: a failure inside a sub-step      *)
(* (nautilus-server/ml_evaluator.py lines 67-123 and the try blocks of the *)
(* sub-steps)                                                              *)
(* env.fault names the statement that raises, "none" for no failure; the   *)
(* other fields are what the sub-steps compute when they do not fail.      *)
(* Accuracy is in hundredths, inference time in hundredths of a            *)
(* millisecond.                                                            *)
(***************************************************************************)
\* line 420: return 75
DefaultIntegrity == 75

\* line 265: {"accuracy": 0, "precision": 0, "recall": 0, "f1_score": 0}
ZeroMetrics ==
    [k \in {"accuracy", "precision", "recall", "f1_score"} |-> 0]

StepRaised(v) == [raised |-> TRUE, v |-> v]
StepReturned(v) == [raised |-> FALSE, v |-> v]

\* _evaluate_model_performance: scaler.transform (line 219) is before the try
\* of line 222, model.predict (line 223) inside it
performance_step(env) ==
    IF env.fault = "performance_scaler" THEN StepRaised(ZeroMetrics)
    ELSE IF env.fault = "performance_predict" THEN StepReturned(ZeroMetrics)
    ELSE StepReturned([k \in DOMAIN ZeroMetrics |-> env.accuracy])

\* _measure_inference_time: scaler.transform (line 281) is outside any try,
\* model.predict (line 291) inside the try of line 290
timing_step(env) ==
    IF env.fault = "timing_scaler" THEN StepRaised(env.elapsed)
    ELSE IF env.fault = "timing_predict" THEN StepReturned(InferenceDefault)
    ELSE StepReturned(Max(env.elapsed, InferenceFloor))

\* _estimate_memory_usage, lines 299-303: no try
memory_step(env) ==
    IF env.fault = "memory" THEN StepRaised(MemoryFloor)
    ELSE StepReturned(MemoryFloor)

\* _assess_bias: everything after the search for the protected column is
\* inside the try of line 329
bias_step(env) ==
    IF env.fault = "bias" THEN StepReturned(DefaultFairness)
    ELSE StepReturned(env.fairness)

\* _assess_data_integrity: the whole body is inside the try of line 390
integrity_step(env) ==
    IF env.fault = "integrity" THEN StepReturned(DefaultIntegrity)
    ELSE StepReturned(env.integrity)

NoReport ==
    [isNone |-> TRUE, metrics |-> ZeroMetrics, inference_time |-> 0,
     fairness_score |-> 0, data_integrity_score |-> 0, quality_score |-> 0]

\* lines 67-123 once model and dataset are loaded: an exception that leaves a
\* sub-step reaches the handler of line 120, which returns None
evaluate_steps(env) ==
    LET m == performance_step(env)
        t == timing_step(env)
        u == memory_step(env)
        b == bias_step(env)
        di == integrity_step(env)
    IN IF m.raised \/ t.raised \/ u.raised \/ b.raised \/ di.raised
       THEN NoReport
       ELSE [isNone |-> FALSE, metrics |-> m.v, inference_time |-> t.v,
             fairness_score |-> b.v, data_integrity_score |-> di.v,
             quality_score |->
                 calculate_overall_quality_score(
                     m.v, [fairness_score |-> b.v], di.v)]

FaultPoints ==
    {"none", "performance_scaler", "performance_predict", "timing_scaler",
     "timing_predict", "memory", "bias", "integrity"}

StepEnvs ==
    [fault : FaultPoints, accuracy : {50, 100}, elapsed : {100, 200},
     fairness : {70, 100}, integrity : {90, 100}]

NoStepEnv ==
    [fault |-> "none", accuracy |-> 0, elapsed |-> 0, fairness |-> 0,
     integrity |-> 0]

StepsInit ==
    /\ fpc = "idle"
    /\ stepEnv = NoStepEnv
    /\ report = NoReport

\* the sub-steps of one evaluation
EvaluateSteps ==
    /\ UNCHANGED <<sealVars, keyVars, docVars, scoreVars, extVars, faultOthers>>
    /\ fpc = "idle"
    /\ \E env \in StepEnvs :
          /\ stepEnv' = env
          /\ report' = evaluate_steps(env)
    /\ fpc' = "done"

\* lines 119 and 123: the caller has the result
StepsReturn ==
    /\ UNCHANGED <<sealVars, keyVars, docVars, scoreVars, extVars, faultOthers>>
    /\ fpc = "done"
    /\ fpc' = "idle"
    /\ stepEnv' = NoStepEnv
    /\ report' = NoReport

\* the scoring sub-step a failing statement belongs to
SubStepOf(fault) ==
    IF fault \in {"performance_scaler", "performance_predict"}
    THEN "performance"
    ELSE IF fault \in {"timing_scaler", "timing_predict"} THEN "timing"
    ELSE fault

\* C24: when one scoring sub-step fails, evaluate still returns a report, the
\* output of that sub-step is its default (zero metrics, 10 ms, fairness 85,
\* integrity 75) and the outputs of the other sub-steps are the computed ones.
C24_SubStepFaults ==
    (fpc = "done" /\ SubStepOf(stepEnv.fault)
                        \in {"performance", "timing", "bias", "integrity"}) =>
        /\ ~report.isNone
        /\ report.metrics =
              IF SubStepOf(stepEnv.fault) = "performance" THEN ZeroMetrics
              ELSE [k \in DOMAIN ZeroMetrics |-> stepEnv.accuracy]
        /\ report.inference_time =
              IF SubStepOf(stepEnv.fault) = "timing" THEN 1000
              ELSE stepEnv.elapsed
        /\ report.fairness_score =
              IF stepEnv.fault = "bias" THEN 85 ELSE stepEnv.fairness
        /\ report.data_integrity_score =
              IF stepEnv.fault = "integrity" THEN 75 ELSE stepEnv.integrity

(***************************************************************************)
(* MLEvaluator._load_model_from_bytes and _load_dataset_from_bytes         *)
(* (nautilus-server/ml_evaluator.py lines 57-65, 125-161, 163-197)         *)
(* The input says what each deserializer would do with the bytes; the      *)
(* events list the deserializers run and the warning, in order.            *)
(***************************************************************************)
\* line 153: the name SecurityWarning is neither imported (lines 7-21) nor a
\* builtin, so evaluating the arguments of warnings.warn raises NameError
SecurityWarningDefined == FALSE

NoModel == [isNone |-> TRUE, via |-> "", wrapped |-> FALSE]

\* lines 127-161; m.joblib is "fails", "dict" (a dict with a 'model' key) or
\* "object"; m.pickle is "fails", "dict" or "object" (no .get, line 157)
load_model_from_bytes(m) ==
    IF m.joblib # "fails"
    THEN [model |-> [isNone |-> FALSE, via |-> "joblib",
                     wrapped |-> m.joblib = "object"],
          events |-> <<"joblib">>]
    ELSE IF ~SecurityWarningDefined
    THEN [model |-> NoModel, events |-> <<"joblib">>]
    ELSE IF m.pickle = "dict"
    THEN [model |-> [isNone |-> FALSE, via |-> "pickle", wrapped |-> FALSE],
          events |-> <<"joblib", "warning", "pickle">>]
    ELSE [model |-> NoModel, events |-> <<"joblib", "warning", "pickle">>]

NoDataFrame == [isNone |-> TRUE, via |-> ""]

\* the parser named first is tried first; a parser succeeds on the bytes as
\* d says (the text parsers need the bytes to decode as UTF-8)
ParserSucceeds(d, parser) ==
    IF parser = "csv" THEN d.utf8 /\ d.csv
    ELSE IF parser = "json" THEN d.utf8 /\ d.json
    ELSE d.numpy

RECURSIVE TryParsers(_, _, _)
\* the nested try blocks of lines 165-197, for the parsers in the given order
TryParsers(d, order, tried) ==
    IF order = <<>> THEN [dataset |-> NoDataFrame, events |-> tried]
    ELSE IF ParserSucceeds(d, Head(order))
    THEN [dataset |-> [isNone |-> FALSE, via |-> Head(order)],
          events |-> Append(tried, Head(order))]
    ELSE TryParsers(d, Tail(order), Append(tried, Head(order)))

\* the parsers in another order
load_dataset_json_first(d) == TryParsers(d, <<"json", "csv", "numpy">>, <<>>)

\* lines 163-197: CSV, then JSON, then NumPy
load_dataset_from_bytes(d) == TryParsers(d, <<"csv", "json", "numpy">>, <<>>)

NoLoad ==
    [model |-> NoModel, model_events |-> <<>>, dataset |-> NoDataFrame,
     dataset_events |-> <<>>, scored |-> FALSE, returned |-> "nothing"]

\* lines 50-65 and 120-123: a model that did not load ends the evaluation
\* before the dataset is touched, a dataset that did not load before any
\* sub-step; lines 67-119 otherwise
evaluate_loads(m, d) ==
    LET lm == load_model_from_bytes(m)
        ld == load_dataset_from_bytes(d)
    IN IF lm.model.isNone
       THEN [NoLoad EXCEPT !.model_events = lm.events, !.returned = "None"]
       ELSE IF ld.dataset.isNone
       THEN [NoLoad EXCEPT !.model = lm.model, !.model_events = lm.events,
                           !.dataset_events = ld.events,
                           !.returned = "None"]
       ELSE [model |-> lm.model, model_events |-> lm.events,
             dataset |-> ld.dataset, dataset_events |-> ld.events,
             scored |-> TRUE, returned |-> "report"]

ModelBlobs ==
    [joblib : {"fails", "dict", "object"}, pickle : {"fails", "dict", "object"}]

DatasetBlobs == [utf8 : BOOLEAN, csv : BOOLEAN, json : BOOLEAN, numpy : BOOLEAN]

NoModelBlob == [joblib |-> "fails", pickle |-> "fails"]
NoDatasetBlob == [utf8 |-> FALSE, csv |-> FALSE, json |-> FALSE, numpy |-> FALSE]

LoadInit ==
    /\ ldpc = "idle"
    /\ model_blob_data = NoModelBlob
    /\ dataset_blob_data = NoDatasetBlob
    /\ loaded = NoLoad

\* evaluate_model_on_dataset up to the first sub-step
EvaluateLoads ==
    /\ UNCHANGED <<sealVars, keyVars, docVars, scoreVars, extVars, loadOthers>>
    /\ ldpc = "idle"
    /\ \E m \in ModelBlobs, d \in DatasetBlobs :
          /\ model_blob_data' = m
          /\ dataset_blob_data' = d
          /\ loaded' = evaluate_loads(m, d)
    /\ ldpc' = "done"

\* the caller has the result
LoadsReturn ==
    /\ UNCHANGED <<sealVars, keyVars, docVars, scoreVars, extVars, loadOthers>>
    /\ ldpc = "done"
    /\ ldpc' = "idle"
    /\ model_blob_data' = NoModelBlob
    /\ dataset_blob_data' = NoDatasetBlob
    /\ loaded' = NoLoad

\* C25: joblib is always attempted first; pickle only after joblib failed and
\* after the warning; and when pickle itself deserializes the bytes, the
\* loaded model is returned to the evaluation.
C25_ModelLoadOrder ==
    ldpc = "done" =>
        /\ Head(loaded.model_events) = "joblib"
        /\ \A i \in 1 .. Len(loaded.model_events) :
              loaded.model_events[i] = "pickle" =>
                  /\ model_blob_data.joblib = "fails"
                  /\ i > 1 /\ loaded.model_events[i - 1] = "warning"
        /\ (model_blob_data.joblib = "fails"
              /\ model_blob_data.pickle # "fails")
              => (~loaded.model.isNone /\ loaded.model.via = "pickle")

\* C26: the parsers run in the order CSV, JSON, NumPy up to the first one that
\* succeeds, which supplies the dataset; when all three fail the evaluation
\* returns a failure and computes no score.
C26_DatasetLoadOrder ==
    (ldpc = "done" /\ ~loaded.model.isNone) =>
        LET order == <<"csv", "json", "numpy">>
            ok == {i \in 1 .. 3 : ParserSucceeds(dataset_blob_data, order[i])}
            first == IF ok = {} THEN 3 ELSE CHOOSE i \in ok : \A j \in ok : i <= j
        IN /\ loaded.dataset_events = SubSeq(order, 1, first)
           /\ ok # {} => (~loaded.dataset.isNone
                            /\ loaded.dataset.via = order[first])
           /\ ok = {} => (loaded.dataset.isNone /\ loaded.returned = "None"
                            /\ ~loaded.scored)

\* the CSV parse fails, the JSON parse succeeds and the NumPy parse, which
\* would succeed, is not run
C26_Witness ==
    /\ ldpc = "done"
    /\ ~loaded.model.isNone
    /\ ~dataset_blob_data.csv /\ dataset_blob_data.utf8
    /\ dataset_blob_data.json /\ dataset_blob_data.numpy
    /\ loaded.dataset_events = <<"csv", "json">>
    /\ loaded.dataset.via = "json"
    /\ loaded.scored

(***************************************************************************)
(* RealAttestationGenerator.sign_ml_result and the result it is part of    *)
(* (flowTest/real_attestation_generator.py lines 192-260)                  *)
(* env gives the signing key, the model's digest and score, and the three  *)
(* clock readings of one call: datetime.utcnow() (line 206),                *)
(* time.time() for the request id (line 223), time.time() inside           *)
(* sign_ml_result (line 255).                                              *)
(***************************************************************************)
\* a JSON number holding the float time.time() returned
Float(t) == [tag |-> "float", n |-> t]

\* json.dumps(ml_data, sort_keys=True).encode(), line 258
MlCanonicalBytes(ml_data) ==
    <<<<"model_hash", ml_data.model_hash>>,
      <<"quality_score", ml_data.quality_score>>,
      <<"request_id", ml_data.request_id>>,
      <<"timestamp", ml_data.timestamp>>>>

\* sign_ml_result, lines 249-260; now is what time.time() returns at line 255
sign_ml_result(k, model_hash, score, request_id, now) ==
    Hex(Ed25519Sign(k, MlCanonicalBytes(
        [model_hash |-> model_hash, quality_score |-> score,
         request_id |-> request_id, timestamp |-> Float(now)])))

\* generate_real_attestation, lines 205-244: the parts of the result that
\* carry the proof and the fields it is made from
verification_result_of(env) ==
    LET timestamp == Str("ts", env.utcnow)
        request_id == Str("req", env.request_time)
    IN [request_id |-> request_id,
        ml_processing_result |->
            [request_id |-> request_id,
             model_hash |-> env.model_hash,
             quality_score |-> env.quality_score,
             signature |-> sign_ml_result(env.key, env.model_hash,
                                          env.quality_score, request_id,
                                          env.sign_time)],
        verification_metadata |-> [timestamp |-> timestamp]]

ProofEnvs ==
    {[key |-> k, model_hash |-> Str("sha256", h),
      quality_score |-> Str("score", q), utcnow |-> t1, request_time |-> t2,
      sign_time |-> t3] :
        k \in 1 .. MaxKeys, h \in 0 .. 2, q \in 0 .. 2,
        t1 \in 0 .. MaxTime, t2 \in 0 .. MaxTime, t3 \in 0 .. MaxTime}

NoProofEnv ==
    [key |-> 0, model_hash |-> EmptyStr, quality_score |-> EmptyStr,
     utcnow |-> 0, request_time |-> 0, sign_time |-> 0]

NoVerificationResult ==
    [request_id |-> EmptyStr,
     ml_processing_result |->
         [request_id |-> EmptyStr, model_hash |-> EmptyStr,
          quality_score |-> EmptyStr, signature |-> AbsentSig],
     verification_metadata |-> [timestamp |-> EmptyStr]]

ProofInit ==
    /\ prpc = "idle"
    /\ proofEnv = NoProofEnv
    /\ verification_result = NoVerificationResult

\* one call of generate_real_attestation; the clock does not run backwards
GenerateVerificationResult ==
    /\ UNCHANGED <<sealVars, keyVars, docVars, scoreVars, extVars, proofOthers>>
    /\ prpc = "idle"
    /\ \E env \in ProofEnvs :
          /\ env.utcnow <= env.request_time
          /\ env.request_time <= env.sign_time
          /\ proofEnv' = env
          /\ verification_result' = verification_result_of(env)
    /\ prpc' = "done"

\* line 247: the result is with the caller
ProofReturn ==
    /\ UNCHANGED <<sealVars, keyVars, docVars, scoreVars, extVars, proofOthers>>
    /\ prpc = "done"
    /\ prpc' = "idle"
    /\ proofEnv' = NoProofEnv
    /\ verification_result' = NoVerificationResult

\* the signed bytes as a holder of the result rebuilds them from its fields
RecomputedBytes(r) ==
    MlCanonicalBytes(
        [model_hash |-> r.ml_processing_result.model_hash,
         quality_score |-> r.ml_processing_result.quality_score,
         request_id |-> r.request_id,
         timestamp |-> r.verification_metadata.timestamp])

\* C27: the proof of a result verifies, under the signer's public key, over
\* the bytes rebuilt from the result's own model_hash, quality_score,
\* request_id and timestamp.
C27_ProofBindsResult ==
    prpc = "done" =>
        Ed25519Verify(PublicKeyOf(proofEnv.key),
                      verification_result.ml_processing_result.signature.raw,
                      RecomputedBytes(verification_result))

(***************************************************************************)
(* MLEvaluator._assess_data_integrity                                      *)
(* (nautilus-server/ml_evaluator.py lines 388-420)                         *)
(* A dataset is its shape and its counts: missing cells, duplicated rows,  *)
(* cells outside the IQR fences.  All columns are numeric.  Ratios are     *)
(* kept exact over the common denominator rows * cols.                     *)
(***************************************************************************)
MaxRows == 4     \* most rows of a dataset

\* lines 412-414
MissingPenalty == 30
DuplicatePenalty == 20
OutlierPenalty == 15

\* rows * cols: the denominator of missing_ratio (line 392) and, the per-column
\* ratios being averaged (line 409), of outlier_ratio
Cells(d) == d.rows * d.cols

\* lines 411-414: integrity_score times Cells(d)
IntegrityTimesCells(d) ==
    100 * Cells(d) - MissingPenalty * d.missing
        - DuplicatePenalty * d.duplicates * d.cols
        - OutlierPenalty * d.outliers

\* lines 390-420: without rows the ratios are NaN, int() raises and the
\* handler returns 75; otherwise max(0, int(integrity_score))
assess_data_integrity(d) ==
    IF d.rows = 0 THEN DefaultIntegrity
    ELSE Max(0, IntegrityTimesCells(d) \div Cells(d))

\* a column of fewer than four values has none outside its fences, a column
\* of n values fewer than half of them
MaxOutliers(rows, cols) ==
    IF rows < 4 THEN 0 ELSE cols * ((rows - 1) \div 2)

IntegrityDatasets ==
    {[rows |-> n, cols |-> c, missing |-> m, duplicates |-> u, outliers |-> o] :
        n \in 0 .. MaxRows, c \in 1 .. 2, m \in 0 .. (MaxRows * 2),
        u \in 0 .. MaxRows, o \in 0 .. MaxRows}

NoIntegrityDataset ==
    [rows |-> 0, cols |-> 1, missing |-> 0, duplicates |-> 0, outliers |-> 0]

NoScores == [integrity_score |-> 0, fairness_score |-> 0, quality_score |-> 0]

IntegrityInit ==
    /\ itpc = "idle"
    /\ integrityIn = NoIntegrityDataset
    /\ scores = NoScores

\* evaluate_model_on_dataset lines 77-81 for one dataset, the metrics and the
\* fairness score being what the earlier sub-steps returned
AssessDataIntegrity ==
    /\ UNCHANGED <<sealVars, keyVars, docVars, scoreVars, extVars, integOthers>>
    /\ itpc = "idle"
    /\ \E d \in IntegrityDatasets, f \in {0, 60, DefaultFairness, 100},
          a \in {0, 100} :
          /\ d.missing <= Cells(d)
          /\ d.duplicates <= Max(d.rows - 1, 0)
          /\ d.outliers <= MaxOutliers(d.rows, d.cols)
          /\ integrityIn' = d
          /\ scores' =
                [integrity_score |-> assess_data_integrity(d),
                 fairness_score |-> f,
                 quality_score |->
                     calculate_overall_quality_score(
                         [k \in DOMAIN ZeroMetrics |-> a],
                         [fairness_score |-> f], assess_data_integrity(d))]
    /\ itpc' = "done"

\* the report is with the caller
IntegrityReturn ==
    /\ UNCHANGED <<sealVars, keyVars, docVars, scoreVars, extVars, integOthers>>
    /\ itpc = "done"
    /\ itpc' = "idle"
    /\ integrityIn' = NoIntegrityDataset
    /\ scores' = NoScores

\* C28: integrity_score equals 100 - 30*missing_ratio - 20*duplicate_ratio
\* - 15*outlier_ratio clamped to [0,100], or 75 when the assessment fails, and
\* integrity_score, fairness_score and quality_score lie in [0,100].
C28_IntegrityFormula ==
    itpc = "done" =>
        /\ IF integrityIn.rows = 0 THEN scores.integrity_score = 75
           ELSE scores.integrity_score * Cells(integrityIn) =
                    Max(0, Min(100 * Cells(integrityIn),
                               IntegrityTimesCells(integrityIn)))
        /\ scores.integrity_score \in 0 .. 100
        /\ scores.fairness_score \in 0 .. 100
        /\ scores.quality_score \in 0 .. 100

(***************************************************************************)
(* Specifications                                                          *)
(***************************************************************************)
ExtInit ==
    BiasInit /\ EvalInit /\ VerifyInit /\ ExtractInit /\ MeasureInit

StepInit ==
    SplitInit /\ PerformanceInit /\ StepsInit /\ LoadInit /\ ProofInit /\ IntegrityInit

Init == SealInit /\ KeyInit /\ DocInit /\ ScoreInit /\ ExtInit /\ StepInit

\* the generator of process 1 is constructed
AttestInit == SealInit /\ KeyUpInit /\ DocInit /\ ScoreInit /\ ExtInit /\ StepInit

KeyNext ==
    \E p \in Procs :
        \/ SeqStart(p)
        \/ CheckKeyFile(p)
        \/ LoadKey(p)
        \/ GenerateKey(p)
        \/ OpenKeyFile(p)
        \/ WriteKeyFile(p)
        \/ StopProcess(p)
        \/ GenerateRealAttestation(p)
        \/ VerifyAttestation(p)

AttestNext ==
    \/ \E p \in Procs : GenerateRealAttestation(p)
    \/ \E p \in Procs : SignAttestation(p)
    \/ TamperField
    \/ DropField
    \/ AddMeasurement
    \/ ReplaceSignature
    \/ \E p \in Procs : VerifyAttestation(p)

\* SealClient: configuration and decrypt_blob calls
SpecSeal == Init /\ [][SealNext]_vars

\* one decrypt_blob call from its entry to its return
SealRunNext ==
    \/ LoadConfig
    \/ DecryptBlob
    \/ ExtractMetadata
    \/ ContactKeyServer
    \/ QuorumCheck
    \/ PerformDecryption
    \/ FinishDecryptBlob

\* the thread inside decrypt_blob keeps running: every statement it reaches
\* is executed, and requests.post returns or raises within its timeout
SealRunFairness ==
    /\ WF_vars(ExtractMetadata)
    /\ WF_vars(ContactKeyServer)
    /\ WF_vars(QuorumCheck)
    /\ WF_vars(PerformDecryption)
    /\ WF_vars(FinishDecryptBlob)

\* SealClient: one decrypt_blob call, run to its end
SpecSealRun == Init /\ [][SealRunNext]_vars /\ SealRunFairness

\* RealAttestationGenerator: processes started one after the other
SpecKey == Init /\ [][KeyNext]_vars

\* processes may be inside __init__ at the same time
ConcurrentKeyNext ==
    \E p \in Procs :
        \/ StartProcess(p)
        \/ CheckKeyFile(p)
        \/ LoadKey(p)
        \/ GenerateKey(p)
        \/ OpenKeyFile(p)
        \/ WriteKeyFile(p)
        \/ StopProcess(p)
        \/ GenerateRealAttestation(p)
        \/ VerifyAttestation(p)

SpecKeyConcurrent == Init /\ [][ConcurrentKeyNext]_vars

\* RealAttestationGenerator: documents signed, altered and verified
SpecAttest == AttestInit /\ [][AttestNext]_vars

ScoreNext == CalculateOverallQualityScore \/ ReturnResult

\* MLEvaluator: evaluations one after the other
SpecScore == Init /\ [][ScoreNext]_vars

BiasNext == AssessBias \/ BiasReturn

\* MLEvaluator._assess_bias applied to datasets one after the other
SpecBias == Init /\ [][BiasNext]_vars

EvalNext == EvaluateModelOnDataset \/ EvalReturn

\* MLEvaluator: whole evaluations one after the other
SpecEval == Init /\ [][EvalNext]_vars

VerifyNext == CompleteVerification \/ VerificationResponse

\* tee_server: verification requests one after the other
SpecVerify == Init /\ [][VerifyNext]_vars

ExtractNext == ExtractMetadataHeader \/ HandOver

\* download_from_walrus: the header of one blob after the other
SpecExtract == Init /\ [][ExtractNext]_vars

MeasureNext == ComputeSystemMeasurements \/ Restart

\* RealAttestationGenerator: the measurements of one process after the other
SpecMeasure == Init /\ [][MeasureNext]_vars

SplitNext == SplitDataset \/ SplitReturn

SpecSplit == Init /\ [][SplitNext]_vars

PerformanceNext == EvaluateModelPerformance \/ PerformanceReturn

SpecPerformance == Init /\ [][PerformanceNext]_vars

StepsNext == EvaluateSteps \/ StepsReturn

SpecSteps == Init /\ [][StepsNext]_vars

LoadNext == EvaluateLoads \/ LoadsReturn

SpecLoad == Init /\ [][LoadNext]_vars

ProofNext == GenerateVerificationResult \/ ProofReturn

SpecProof == Init /\ [][ProofNext]_vars

IntegrityNext == AssessDataIntegrity \/ IntegrityReturn

SpecIntegrity == Init /\ [][IntegrityNext]_vars

Next ==
    \/ SealNext
    \/ \E p \in Procs : StartProcess(p)
    \/ KeyNext
    \/ AttestNext
    \/ ScoreNext
    \/ BiasNext
    \/ EvalNext
    \/ VerifyNext
    \/ ExtractNext
    \/ MeasureNext
    \/ SplitNext
    \/ PerformanceNext
    \/ StepsNext
    \/ LoadNext
    \/ ProofNext
    \/ IntegrityNext

Spec == Init /\ [][Next]_vars

====
